---- MODULE Spec2Model ----
(***************************************************************************)
(* Model of the workers-accountable backend: the recurring job scheduler   *)
(* (services/scheduler.service.ts), the reminder generator and the         *)
(* notification store (services/notification.service.ts), and the weekly   *)
(* discipline record store (services/discipline.service.ts,                *)
(* models/discipline.model.ts).                                            *)
(*                                                                         *)
(* Node runs one thread: a handler runs without interruption between two   *)
(* awaits, so every action below is the code between two awaits of one     *)
(* handler, and handlers interleave at their awaits.                       *)
(***************************************************************************)
EXTENDS Integers, Sequences, FiniteSets, TLC

VARIABLES
    isInitialized,      \* SchedulerService.isInitialized
    jobs,               \* SchedulerService.jobs: job name -> node-cron task
    tasks,              \* the node-cron tasks alive: task -> [name, started]
    process,            \* the node process: "up", "closing", "exited"
    runs,               \* invocations of a job action: run -> its position and locals
    notifications,      \* the Notification collection
    users,              \* the User collection
    weeklyDisciplines,  \* the WeeklyDiscipline collection
    now,                \* the clock (new Date()), in the process's local time
    timeZone,           \* the process's time zone: hours east of UTC
    requests            \* discipline API requests: request -> its position and locals

vars == <<isInitialized, jobs, tasks, process, runs, notifications, users,
          weeklyDisciplines, now, timeZone, requests>>

schedulerVars == <<isInitialized, jobs, tasks>>

(***************************************************************************)
(* Bounds of the model.                                                    *)
(***************************************************************************)
MaxRuns == 2            \* job-action invocations started in one behaviour
MaxRequests == 2        \* discipline API requests made in one behaviour

\* null / undefined where a document or a Date is expected, and where a string is
Null == [null |-> TRUE]

Undefined == "undefined"

(***************************************************************************)
(* types/enums.ts                                                          *)
(***************************************************************************)
UserRoles == {"worker", "executive"}

SpiritualDisciplines == <<"prayer", "bible_study", "fasting", "evangelism">>

DaysOfWeek ==
    <<"monday", "tuesday", "wednesday", "thursday", "friday", "saturday", "sunday">>

DailyDisciplines == <<"prayer", "bible_study">>

WeeklyDisciplines == <<"fasting", "evangelism">>

Range(s) == {s[i] : i \in DOMAIN s}

includes(s, x) == x \in Range(s)

(***************************************************************************)
(* models/notification.model.ts                                            *)
(***************************************************************************)
NotificationStatus == {"unread", "read", "dismissed"}

NotificationType == {"task_reminder", "general"}

NotificationSchedule == {"7am", "1pm", "9pm"}

(***************************************************************************)
(* Dates.  A Date is [day, ms]: whole days since a reference Monday and    *)
(* the milliseconds since local midnight of that day.                      *)
(***************************************************************************)
EndOfDayMs == 86399999

Date(d, m) == [day |-> d, ms |-> m]

\* Date.prototype.getDay(): 0 = Sunday .. 6 = Saturday; day 0 is a Monday.
getDay(date) == (date.day + 1) % 7

\* a < b on Dates
DateLt(a, b) == a.day < b.day \/ (a.day = b.day /\ a.ms < b.ms)

\* d.setDate(d.getDate() + n)
AddDays(date, n) == [date EXCEPT !.day = @ + n]

\* d.setHours(h, m, s, ms) for the two uses in the code
setHoursStart(date) == [date EXCEPT !.ms = 0]

setHoursEnd(date) == [date EXCEPT !.ms = EndOfDayMs]

getWeekStartDateSundayAhead(date) ==
    setHoursStart(AddDays(date, 1 - getDay(date)))

getWeekStartDate(date) ==
    LET day == getDay(date)
        diff == IF day = 0 THEN -6 ELSE 1
        monday == AddDays(date, diff - day)
    IN  setHoursStart(monday)

getWeekEndDateOfInstant(date) == setHoursEnd(AddDays(date, 6))

getWeekEndDate(date) ==
    LET monday == getWeekStartDate(date)
        sunday == AddDays(monday, 6)
    IN  setHoursEnd(sunday)

(***************************************************************************)
(* models/discipline.model.ts: one DisciplineProgress entry                *)
(***************************************************************************)
Progress(kind, flagged) ==
    [discipline |-> kind,
     monday     |-> "monday" \in flagged,
     tuesday    |-> "tuesday" \in flagged,
     wednesday  |-> "wednesday" \in flagged,
     thursday   |-> "thursday" \in flagged,
     friday     |-> "friday" \in flagged,
     saturday   |-> "saturday" \in flagged,
     sunday     |-> "sunday" \in flagged]

\* DisciplineProgressSchema: an object put into the disciplines array is cast to an
\* entry; a weekday it does not hold gets the schema default false
CastProgress(obj) ==
    Progress(obj.discipline,
             {day \in Range(DaysOfWeek) : day \in DOMAIN obj /\ obj[day] = TRUE})

\* {...a, ...b}: the properties of b, and those of a that b does not have
Spread(a, b) ==
    [k \in DOMAIN a \cup DOMAIN b |-> IF k \in DOMAIN b THEN b[k] ELSE a[k]]

NoDefaultDisciplines == << >>

\* the four all-false entries written out in the code
DefaultDisciplines == [i \in 1..4 |-> Progress(SpiritualDisciplines[i], {})]

\* WeeklyDiscipline.findOne({userId, weekStartDate})
FindOneWeekly(store, userId, weekStartDate) ==
    LET found == {d \in store : d.userId = userId /\ d.weekStartDate = weekStartDate}
    IN  IF found = {} THEN Null ELSE CHOOSE d \in found : TRUE

(***************************************************************************)
(* services/notification.service.ts: the reminder generator                *)
(***************************************************************************)
getDaysUpToToday(date) ==
    LET today == getDay(date)
        todayIndex == IF today = 0 THEN 6 ELSE today - 1
    IN  SubSeq(DaysOfWeek, 1, todayIndex + 1)

\* the entry checkIncompleteTasks pushes for one discipline entry, or none
IncompleteEntry(disc, daysToCheck) ==
    IF includes(DailyDisciplines, disc.discipline)
    THEN LET missingDays == SelectSeq(daysToCheck, LAMBDA day : disc[day] # TRUE)
         IN  IF Len(missingDays) > 0
             THEN <<[discipline |-> disc.discipline, missingDays |-> missingDays]>>
             ELSE <<>>
    ELSE IF includes(WeeklyDisciplines, disc.discipline)
    THEN LET hasCompleted == \E i \in DOMAIN DaysOfWeek : disc[DaysOfWeek[i]] = TRUE
         IN  IF ~hasCompleted /\ includes(daysToCheck, "sunday")
             THEN <<[discipline |-> disc.discipline, missingDays |-> <<"week">>]>>
             ELSE <<>>
    ELSE <<>>

RECURSIVE IncompleteOf(_, _)
IncompleteOf(disciplines, daysToCheck) ==
    IF disciplines = <<>> THEN <<>>
    ELSE IncompleteEntry(Head(disciplines), daysToCheck)
            \o IncompleteOf(Tail(disciplines), daysToCheck)

\* checkIncompleteTasks(userId), given the record store and the clock it reads
checkIncompleteTasks(store, date, userId) ==
    LET weekStartDate == getWeekStartDate(date)
        daysToCheck == getDaysUpToToday(date)
        weeklyDiscipline == FindOneWeekly(store, userId, weekStartDate)
        disciplines == IF weeklyDiscipline # Null THEN weeklyDiscipline.disciplines
                       ELSE DefaultDisciplines
    IN  IncompleteOf(disciplines, daysToCheck)

\* Math.round(n / d * 100) for n >= 0, d > 0
RoundPercent(n, d) == (200 * n + d) \div (2 * d)

RECURSIVE CompletedCount(_, _)
CompletedCount(disciplines, daysToCheck) ==
    IF disciplines = <<>> THEN 0
    ELSE LET disc == Head(disciplines)
             here == IF includes(DailyDisciplines, disc.discipline)
                     THEN Len(SelectSeq(daysToCheck, LAMBDA day : disc[day] = TRUE))
                     ELSE 0
         IN  here + CompletedCount(Tail(disciplines), daysToCheck)

\* the completionRate getWorkersWithIncompleteTasks puts in a summary
SummaryRate(store, date, userId) ==
    LET weeklyDiscipline == FindOneWeekly(store, userId, getWeekStartDate(date))
        daysToCheck == getDaysUpToToday(date)
        totalPossible == Len(daysToCheck) * Len(DailyDisciplines)
        completedCount == IF weeklyDiscipline # Null
                          THEN CompletedCount(weeklyDiscipline.disciplines, daysToCheck)
                          ELSE 0
    IN  IF totalPossible > 0 THEN RoundPercent(completedCount, totalPossible) ELSE 0

formatDisciplineName(discipline) ==
    CASE discipline = "prayer"      -> "Prayer"
      [] discipline = "bible_study" -> "Bible Study"
      [] discipline = "fasting"     -> "Fasting"
      [] discipline = "evangelism"  -> "Evangelism"
      [] OTHER                      -> discipline

\* the message of one reminder: the greeting's first name, one item per
\* incomplete task and the completion rate
ReminderMessage(summary) ==
    [firstName |-> Head(summary.fullName),
     disciplinesList |->
        [i \in DOMAIN summary.incompleteTasks |->
            LET task == summary.incompleteTasks[i]
            IN  [name |-> formatDisciplineName(task.discipline),
                 week |-> task.missingDays[1] = "week",
                 pending |-> Len(task.missingDays)]],
     completionRate |-> summary.completionRate]

\* User.find({role: WORKER, isActive: true}), in _id order
RECURSIVE SortedSeq(_)
SortedSeq(S) ==
    IF S = {} THEN <<>>
    ELSE LET m == CHOOSE x \in S : \A y \in S : x <= y
         IN  <<m>> \o SortedSeq(S \ {m})

\* getMyIncompleteTasks(userId): the tasks and the number the message names
RECURSIVE TaskCount(_)
TaskCount(incompleteTasks) ==
    IF incompleteTasks = <<>> THEN 0
    ELSE (IF Head(incompleteTasks).missingDays[1] = "week" THEN 1
          ELSE Len(Head(incompleteTasks).missingDays))
         + TaskCount(Tail(incompleteTasks))

getMyIncompleteTasks(store, date, userId) ==
    LET incompleteTasks == checkIncompleteTasks(store, date, userId)
    IN  [hasIncompleteTasks |-> Len(incompleteTasks) > 0,
         incompleteTasks |-> incompleteTasks,
         message |-> IF Len(incompleteTasks) > 0
                     THEN [text |-> "You have ${taskCount} incomplete task(s). Keep going!",
                           taskCount |-> TaskCount(incompleteTasks)]
                     ELSE [text |-> "All tasks completed! Great job!", taskCount |-> 0]]

FindActiveWorkers(coll) ==
    SortedSeq({u \in DOMAIN coll : coll[u].role = "worker" /\ coll[u].isActive})

\* Notification.create(...): _id is a new ObjectId, one that no document has or had (the
\* documents stored before the initial state have the ids 1..StoredIds); the schema
\* defaults fill status; timestamps fill createdAt
StoredIds == 5

NextNotificationId(coll) ==
    LET used == {n.id : n \in coll} \cup UNION {runs[r].created : r \in DOMAIN runs}
                    \cup {StoredIds}
    IN  1 + (CHOOSE m \in used : \A k \in used : k <= m)

createNotification(coll, date, userId, title, message, type, scheduleTime, incompleteTasks) ==
    [id |-> NextNotificationId(coll),
     userId |-> userId,
     title |-> title,
     message |-> message,
     type |-> type,
     status |-> "unread",
     scheduleTime |-> scheduleTime,
     incompleteTasks |-> incompleteTasks,
     readAt |-> Null,
     createdAt |-> date]

\* parseInt(string, 10) of a string given as its characters: an optional sign and the
\* leading decimal digits; NaN when there is no digit
NaN == [nan |-> TRUE]

Digits == <<"0", "1", "2", "3", "4", "5", "6", "7", "8", "9">>

IsDigit(c) == c \in Range(Digits)

DigitValue(c) == (CHOOSE i \in DOMAIN Digits : Digits[i] = c) - 1

RECURSIVE ParseDigits(_, _)
ParseDigits(s, acc) ==
    IF s = <<>> \/ ~IsDigit(Head(s)) THEN acc
    ELSE ParseDigits(Tail(s), 10 * acc + DigitValue(Head(s)))

\* whether parseInt finds a number
IsNumeric(s) ==
    \/ s # <<>> /\ IsDigit(Head(s))
    \/ Len(s) > 1 /\ Head(s) = "-" /\ IsDigit(s[2])

parseInt(s) ==
    CASE ~IsNumeric(s)  -> NaN
      [] Head(s) = "-" -> -ParseDigits(Tail(s), 0)
      [] OTHER         -> ParseDigits(s, 0)

\* new Date(NaN)
InvalidDate == [invalid |-> TRUE]

\* cleanupOldNotifications(daysOld): the cutoff, and what deleteMany removes
CutoffDate(date, daysOld) == AddDays(date, -daysOld)

CleanupMatchesAnyStatus(coll, cutoffDate) ==
    {n \in coll : DateLt(n.createdAt, cutoffDate)}

CleanupMatches(coll, cutoffDate) ==
    {n \in coll : n.status = "read" /\ DateLt(n.createdAt, cutoffDate)}

(***************************************************************************)
(* services/scheduler.service.ts                                           *)
(***************************************************************************)
JobNames ==
    <<"morning-reminder", "afternoon-reminder", "evening-reminder", "cleanup-notifications">>

\* a cron expression "minute hour * * *"
Cron(minute, hour) == [minute |-> minute, hour |-> hour]

CronExpression(name) ==
    CASE name = "morning-reminder"      -> Cron(0, 7)
      [] name = "afternoon-reminder"    -> Cron(0, 13)
      [] name = "evening-reminder"      -> Cron(0, 21)
      [] name = "cleanup-notifications" -> Cron(0, 2)

\* cron.validate(expression)
validate(expr) == expr.minute \in 0..59 /\ expr.hour \in 0..23

JobActionWithoutDefault(name) ==
    CASE name = "morning-reminder"      -> [action |-> "reminders", slot |-> "7am"]
      [] name = "afternoon-reminder"    -> [action |-> "reminders", slot |-> "1pm"]
      [] name = "evening-reminder"      -> [action |-> "reminders", slot |-> "9pm"]
      [] OTHER                          -> [action |-> "cleanup", slot |-> Undefined]

\* the action a job's handler awaits, and triggerJob's switch; "unknown" is the default case
JobAction(name) ==
    CASE name = "morning-reminder"      -> [action |-> "reminders", slot |-> "7am"]
      [] name = "afternoon-reminder"    -> [action |-> "reminders", slot |-> "1pm"]
      [] name = "evening-reminder"      -> [action |-> "reminders", slot |-> "9pm"]
      [] name = "cleanup-notifications" -> [action |-> "cleanup", slot |-> Undefined]
      [] OTHER                          -> [action |-> "unknown", slot |-> Undefined]

CleanupDaysOld == 30

\* a task object that is stopped and that nothing refers to is garbage: drop it
Collect(js, ts) ==
    [t \in {t \in DOMAIN ts : ts[t].started \/ t \in Range(js)} |-> ts[t]]

\* a fresh task object
NewTask(ts) == CHOOSE t \in 1..(Cardinality(DOMAIN ts) + 1) : t \notin DOMAIN ts

\* scheduleJob(name, cronExpression, handler) on the scheduler's registry and node-cron's tasks
scheduleJob(st, name, cronExpression) ==
    IF ~validate(cronExpression) THEN st
    ELSE LET job == NewTask(st.tasks)
         IN  [jobs  |-> [n \in DOMAIN st.jobs \cup {name} |->
                            IF n = name THEN job ELSE st.jobs[n]],
              tasks |-> [t \in DOMAIN st.tasks \cup {job} |->
                            IF t = job THEN [name |-> name, started |-> TRUE]
                            ELSE st.tasks[t]]]

RECURSIVE ScheduleAll(_, _)
ScheduleAll(st, names) ==
    IF names = <<>> THEN st
    ELSE ScheduleAll(scheduleJob(st, Head(names), CronExpression(Head(names))), Tail(names))

InitializeNeverSkips == FALSE

\* initialize(): the guard on isInitialized
InitializeSkips == isInitialized

\* initialize()
Initialize ==
    /\ process = "up"
    /\ IF InitializeSkips
       THEN UNCHANGED schedulerVars
       ELSE LET st == ScheduleAll([jobs |-> jobs, tasks |-> tasks], JobNames)
            IN  /\ jobs' = st.jobs
                /\ tasks' = Collect(st.jobs, st.tasks)
                /\ isInitialized' = TRUE
    /\ UNCHANGED <<process, runs, notifications, users, weeklyDisciplines, now, timeZone,
                   requests>>

StopEveryTask(ts, stopped) == [t \in DOMAIN ts |-> [ts[t] EXCEPT !.started = FALSE]]

\* job.stop() on each task of a set
StopTasks(ts, stopped) ==
    [t \in DOMAIN ts |-> IF t \in stopped THEN [ts[t] EXCEPT !.started = FALSE] ELSE ts[t]]

\* stopJob(name)
StopJob(name) ==
    /\ process = "up"
    /\ tasks' = IF name \in DOMAIN jobs THEN StopTasks(tasks, {jobs[name]}) ELSE tasks
    /\ UNCHANGED <<isInitialized, jobs, process, runs, notifications, users,
                   weeklyDisciplines, now, timeZone, requests>>

StopAllStopsNothing == {}

\* the tasks stopAll() stops
StopAllStops == Range(jobs)

StopAllStaysInitialized == isInitialized

\* what stopAll() assigns to isInitialized
StopAllInitialized == FALSE

\* the body of stopAll()
DoStopAll ==
    /\ jobs' = << >>
    /\ tasks' = Collect(<< >>, StopTasks(tasks, StopAllStops))
    /\ isInitialized' = StopAllInitialized

\* stopAll()
StopAll ==
    /\ process = "up"
    /\ DoStopAll
    /\ UNCHANGED <<process, runs, notifications, users, weeklyDisciplines, now, timeZone,
                   requests>>

getStatusOfTimers ==
    LET names == SelectSeq(JobNames, LAMBDA name : name \in DOMAIN jobs)
    IN  [i \in DOMAIN names |-> [name |-> names[i], running |-> tasks[jobs[names[i]]].started]]

\* getStatus(): one entry per key of the jobs map, in insertion order, running: true
getStatus ==
    LET names == SelectSeq(JobNames, LAMBDA name : name \in DOMAIN jobs)
    IN  [i \in DOMAIN names |-> [name |-> names[i], running |-> TRUE]]

(***************************************************************************)
(* Invocations of a job action.  A run is one call of createTaskReminders  *)
(* or cleanupOldNotifications: from a cron-fired handler ("cron"), from    *)
(* triggerJob ("trigger") or from the notification controller ("api").     *)
(* pc is the await the call is suspended at.                               *)
(***************************************************************************)
NewRun(job, origin, act, pc0, date) ==
    [job |-> job, origin |-> origin, action |-> act.action, slot |-> act.slot,
     pc |-> pc0, workers |-> <<>>, incompleteTasks |-> <<>>, summaries |-> <<>>,
     count |-> 0, created |-> {}, cutoffDate |-> CutoffDate(date, CleanupDaysOld),
     daysOld |-> CleanupDaysOld, outcome |-> "pending", failedOn |-> 0]

\* a call that has ended: its frame is gone; what is kept is how it ended, what it
\* returned, and (as history) the notifications it created and the subject it failed on
Ended(run, outcome, failedOn) ==
    [job |-> "none", origin |-> "none", action |-> "none", slot |-> Undefined,
     pc |-> "done", workers |-> <<>>, incompleteTasks |-> <<>>, summaries |-> <<>>,
     count |-> run.count, created |-> run.created, cutoffDate |-> Null,
     daysOld |-> 0, outcome |-> outcome, failedOn |-> failedOn]

Finish(run, outcome) == Ended(run, outcome, 0)

\* the first await of an action
FirstAwait(action) == IF action = "reminders" THEN "find" ELSE "deleteMany"

NextRun == Cardinality(DOMAIN runs) + 1

StartRun(job, origin, act) ==
    runs' = [r \in DOMAIN runs \cup {NextRun} |->
                IF r = NextRun THEN NewRun(job, origin, act, FirstAwait(act.action), now)
                ELSE runs[r]]

InFlight(r) == runs[r].outcome = "pending"

\* the runs of one job's action that are in progress
RunsInProgress(name) == {r \in DOMAIN runs : runs[r].job = name /\ InFlight(r)}

\* node-cron fires a started task when the clock matches its expression
CanFire(t) == process = "up" /\ t \in DOMAIN tasks /\ tasks[t].started

\* a cron-fired run of the handler registered for a job: the handler logs and awaits the action
CronFire(t) ==
    /\ CanFire(t)
    /\ NextRun <= MaxRuns
    /\ StartRun(tasks[t].name, "cron", JobAction(tasks[t].name))
    /\ UNCHANGED <<isInitialized, jobs, tasks, process, notifications, users,
                   weeklyDisciplines, now, timeZone, requests>>

\* triggerJob(name)
TriggerJob(name) ==
    /\ process = "up"
    /\ NextRun <= MaxRuns
    /\ LET act == JobAction(name)
       IN  IF act.action = "unknown"
           THEN runs' = [r \in DOMAIN runs \cup {NextRun} |->
                            IF r = NextRun
                            THEN Finish(NewRun(name, "trigger", act, "done", now), "unknown_job")
                            ELSE runs[r]]
           ELSE StartRun(name, "trigger", act)
    /\ UNCHANGED <<isInitialized, jobs, tasks, process, notifications, users,
                   weeklyDisciplines, now, timeZone, requests>>

FailureAlwaysPropagates(origin) == "threw"

\* how a run ends when its action throws: the cron handlers catch and log, triggerJob and
\* the controller pass the error to their caller
FailureOutcome(origin) == IF origin = "cron" THEN "caught" ELSE "threw"

\* createTaskReminders after getWorkersWithIncompleteTasks has returned, up to its next await
AfterSummaries(run) ==
    IF run.summaries = <<>> THEN Finish(run, "returned") ELSE [run EXCEPT !.pc = "create"]

\* getWorkersWithIncompleteTasks after one worker is dealt with, up to the next await
AfterWorker(run) ==
    LET rest == [run EXCEPT !.workers = Tail(@), !.incompleteTasks = <<>>]
    IN  IF rest.workers = <<>> THEN AfterSummaries(rest) ELSE [rest EXCEPT !.pc = "check"]

\* await User.find(...) resolves
FindWorkers(r) ==
    /\ r \in DOMAIN runs /\ InFlight(r) /\ runs[r].pc = "find"
    /\ process # "exited"
    /\ LET found == [runs[r] EXCEPT !.workers = FindActiveWorkers(users)]
       IN  runs' = [runs EXCEPT ![r] =
                        IF found.workers = <<>> THEN AfterSummaries(found)
                        ELSE [found EXCEPT !.pc = "check"]]
    /\ UNCHANGED <<isInitialized, jobs, tasks, process, notifications, users,
                   weeklyDisciplines, now, timeZone, requests>>

AlwaysSummarized(incompleteTasks) == TRUE

\* the filter on a worker's incomplete tasks in getWorkersWithIncompleteTasks
HasIncomplete(incompleteTasks) == Len(incompleteTasks) > 0

\* await this.checkIncompleteTasks(worker._id) resolves
CheckWorker(r) ==
    /\ r \in DOMAIN runs /\ InFlight(r) /\ runs[r].pc = "check"
    /\ process # "exited"
    /\ LET worker == Head(runs[r].workers)
           incompleteTasks == checkIncompleteTasks(weeklyDisciplines, now, worker)
       IN  runs' = [runs EXCEPT ![r] =
                        IF HasIncomplete(incompleteTasks)
                        THEN [@ EXCEPT !.incompleteTasks = incompleteTasks, !.pc = "rate"]
                        ELSE AfterWorker(@)]
    /\ UNCHANGED <<isInitialized, jobs, tasks, process, notifications, users,
                   weeklyDisciplines, now, timeZone, requests>>

\* the second await WeeklyDiscipline.findOne(...) resolves: the summary is pushed
RateWorker(r) ==
    /\ r \in DOMAIN runs /\ InFlight(r) /\ runs[r].pc = "rate"
    /\ process # "exited"
    /\ LET worker == Head(runs[r].workers)
           summary == [userId |-> worker,
                       fullName |-> users[worker].fullName,
                       email |-> users[worker].email,
                       incompleteTasks |-> runs[r].incompleteTasks,
                       completionRate |-> SummaryRate(weeklyDisciplines, now, worker)]
       IN  runs' = [runs EXCEPT ![r] =
                        AfterWorker([@ EXCEPT !.summaries = Append(@, summary)])]
    /\ UNCHANGED <<isInitialized, jobs, tasks, process, notifications, users,
                   weeklyDisciplines, now, timeZone, requests>>

InsertOncePerSlotAndDay(coll, doc) ==
    IF \E n \in coll : /\ n.userId = doc.userId /\ n.type = doc.type
                       /\ n.scheduleTime = doc.scheduleTime
                       /\ n.createdAt.day = doc.createdAt.day
    THEN coll ELSE coll \cup {doc}

\* Notification.create(doc): an insert, with no condition on what the collection holds
InsertNotification(coll, doc) == coll \cup {doc}

\* await this.createNotification(...) resolves: the document is in the collection
CreateReminder(r) ==
    /\ r \in DOMAIN runs /\ InFlight(r) /\ runs[r].pc = "create"
    /\ process # "exited"
    /\ LET summary == Head(runs[r].summaries)
           doc == createNotification(notifications, now, summary.userId, "Task Reminder",
                                     ReminderMessage(summary), "task_reminder",
                                     runs[r].slot, summary.incompleteTasks)
           next == [runs[r] EXCEPT !.summaries = Tail(@), !.count = @ + 1,
                                   !.created = @ \cup {doc.id}]
       IN  /\ notifications' = InsertNotification(notifications, doc)
           /\ runs' = [runs EXCEPT ![r] =
                          IF next.summaries = <<>> THEN Finish(next, "returned") ELSE next]
    /\ UNCHANGED <<isInitialized, jobs, tasks, process, users, weeklyDisciplines, now, timeZone,
                   requests>>

\* await Notification.deleteMany(...) resolves, or rejects when the cutoff cannot be cast
Cleanup(r) ==
    /\ r \in DOMAIN runs /\ InFlight(r) /\ runs[r].pc = "deleteMany"
    /\ process # "exited"
    /\ IF runs[r].cutoffDate = InvalidDate
       THEN /\ UNCHANGED notifications
            /\ runs' = [runs EXCEPT ![r] = Finish(@, FailureOutcome(@.origin))]
       ELSE LET gone == CleanupMatches(notifications, runs[r].cutoffDate)
            IN  /\ notifications' = notifications \ gone
                /\ runs' = [runs EXCEPT ![r] =
                               Finish([@ EXCEPT !.count = Cardinality(gone)], "returned")]
    /\ UNCHANGED <<isInitialized, jobs, tasks, process, users, weeklyDisciplines, now, timeZone,
                   requests>>

\* the subject a run is dealing with at its await (0: none, the call is not about one subject)
SubjectAt(run) ==
    CASE run.pc \in {"check", "rate"} -> Head(run.workers)
      [] run.pc = "create"            -> Head(run.summaries).userId
      [] OTHER                        -> 0

\* the store call a run awaits rejects (a network error, a timeout, a validation error):
\* nothing between the call and the entry point catches it
StoreFails(r) ==
    /\ r \in DOMAIN runs /\ InFlight(r)
    /\ process # "exited"
    /\ runs' = [runs EXCEPT ![r] =
                    Ended(@, FailureOutcome(runs[r].origin), SubjectAt(runs[r]))]
    /\ UNCHANGED <<isInitialized, jobs, tasks, process, notifications, users,
                   weeklyDisciplines, now, timeZone, requests>>

(***************************************************************************)
(* services/discipline.service.ts: getOrCreateCurrentWeek and saveProgress *)
(* as requests that interleave at their awaits.                            *)
(***************************************************************************)
NewRequest(op, userId, data, weekStartDate, weekEndDate) ==
    [op |-> op, userId |-> userId, data |-> data, pc |-> "findOne",
     weekStartDate |-> weekStartDate, weekEndDate |-> weekEndDate,
     doc |-> Null, isNew |-> FALSE, modified |-> {}, pushed |-> 0,
     result |-> Null, outcome |-> "pending",
     at |-> Null]       \* the instant the week is computed from

NextRequest == Cardinality(DOMAIN requests) + 1

AddRequest(req) ==
    requests' = [q \in DOMAIN requests \cup {NextRequest} |->
                    IF q = NextRequest THEN req ELSE requests[q]]

Awaiting(q, op, pc) ==
    /\ q \in DOMAIN requests
    /\ requests[q].op = op /\ requests[q].pc = pc /\ requests[q].outcome = "pending"
    /\ process # "exited"

NoUniqueIndex(store, doc) == TRUE

\* the unique index {userId: 1, weekStartDate: 1}: may this document be inserted?
UniqueIndexAllows(store, doc) ==
    ~\E d \in store : d.userId = doc.userId /\ d.weekStartDate = doc.weekStartDate

\* WeeklyDisciplineSchema.pre('save')
PreSave(doc, isNew) ==
    IF isNew /\ Len(doc.disciplines) = 0
    THEN [doc EXCEPT !.disciplines = DefaultDisciplines]
    ELSE doc

NewWeeklyId(store) == Cardinality(store) + 1

CreateLosesDocument(store, doc) == store

\* WeeklyDiscipline.create(doc) resolves: the document is in the collection
CreateWeekly(store, doc) == store \cup {doc}

\* getOrCreateCurrentWeek(userId) up to its first await
CallGetOrCreateCurrentWeek(userId) ==
    /\ process = "up"
    /\ NextRequest <= MaxRequests
    /\ AddRequest([NewRequest("getOrCreateCurrentWeek", userId, <<>>,
                              getWeekStartDate(now), getWeekEndDate(now))
                      EXCEPT !.at = now])
    /\ UNCHANGED <<isInitialized, jobs, tasks, process, runs, notifications, users,
                   weeklyDisciplines, now, timeZone>>

\* the callers of getOrCreateCurrentWeek: the getCurrentWeek handler and getDashboardStats
GetOps == {"getOrCreateCurrentWeek", "getDashboardStats"}

\* getOrCreateCurrentWeek returns the document: the handler responds, getDashboardStats
\* goes on to await calculateStreak
AfterGetOrCreate(req, doc) ==
    IF req.op = "getDashboardStats"
    THEN [req EXCEPT !.doc = doc, !.pc = "streak"]
    ELSE [req EXCEPT !.doc = doc, !.pc = "done", !.outcome = "ok"]

\* getOrCreateCurrentWeek: await findOne resolves
GetFindOne(q) ==
    /\ \E op \in GetOps : Awaiting(q, op, "findOne")
    /\ LET found == FindOneWeekly(weeklyDisciplines, requests[q].userId,
                                  requests[q].weekStartDate)
       IN  requests' = [requests EXCEPT ![q] =
                IF found # Null
                THEN AfterGetOrCreate(@, found)
                ELSE [@ EXCEPT !.pc = "create"]]
    /\ UNCHANGED <<isInitialized, jobs, tasks, process, runs, notifications, users,
                   weeklyDisciplines, now, timeZone>>

\* getOrCreateCurrentWeek: await WeeklyDiscipline.create(...) resolves or rejects (E11000)
GetCreate(q) ==
    /\ \E op \in GetOps : Awaiting(q, op, "create")
    /\ LET doc == PreSave([id |-> NewWeeklyId(weeklyDisciplines),
                           userId |-> requests[q].userId,
                           weekStartDate |-> requests[q].weekStartDate,
                           weekEndDate |-> requests[q].weekEndDate,
                           disciplines |-> DefaultDisciplines,
                           version |-> 0], TRUE)
       IN  IF UniqueIndexAllows(weeklyDisciplines, doc)
           THEN /\ weeklyDisciplines' = CreateWeekly(weeklyDisciplines, doc)
                /\ requests' = [requests EXCEPT ![q] = AfterGetOrCreate(@, doc)]
           ELSE /\ UNCHANGED weeklyDisciplines
                /\ requests' = [requests EXCEPT ![q] =
                        [@ EXCEPT !.pc = "done", !.outcome = "conflict"]]
    /\ UNCHANGED <<isInitialized, jobs, tasks, process, runs, notifications, users,
                   now, timeZone>>

FindIndexNever(disciplines, kind) == 0

\* findIndex((d) => d.discipline === kind): the first match, 0 when there is none
FindIndex(disciplines, kind) ==
    LET hits == {i \in DOMAIN disciplines : disciplines[i].discipline = kind}
    IN  IF hits = {} THEN 0 ELSE CHOOSE i \in hits : \A j \in hits : i <= j

\* one turn of the loop over data.disciplines, on the in-memory document
MergeOne(mem, progress) ==
    LET existingIndex == FindIndex(mem.disciplines, progress.discipline)
    IN  IF existingIndex >= 1
        THEN [mem EXCEPT !.disciplines[existingIndex] =
                                CastProgress(Spread(mem.disciplines[existingIndex], progress)),
                         !.modified = @ \cup {existingIndex}]
        ELSE [mem EXCEPT !.disciplines = Append(@, CastProgress(progress)),
                         !.pushed = @ + 1]

RECURSIVE MergeAll(_, _)
MergeAll(mem, payload) ==
    IF payload = <<>> THEN mem
    ELSE MergeAll(MergeOne(mem, Head(payload)), Tail(payload))

\* saveProgress(userId, data) up to its first await
CallSaveProgress(userId, data) ==
    /\ process = "up"
    /\ NextRequest <= MaxRequests
    /\ LET weekStartDate == IF data.weekStartDate # Null
                            THEN getWeekStartDate(data.weekStartDate)
                            ELSE getWeekStartDate(now)
           weekEndDate == getWeekEndDate(weekStartDate)
       IN  AddRequest([NewRequest("saveProgress", userId, data.disciplines,
                                  weekStartDate, weekEndDate)
                          EXCEPT !.at = IF data.weekStartDate # Null
                                        THEN data.weekStartDate ELSE now])
    /\ UNCHANGED <<isInitialized, jobs, tasks, process, runs, notifications, users,
                   weeklyDisciplines, now, timeZone>>

\* saveProgress: await findOne resolves; the merge loop runs; save() is awaited
SaveFindOne(q) ==
    /\ Awaiting(q, "saveProgress", "findOne")
    /\ LET found == FindOneWeekly(weeklyDisciplines, requests[q].userId,
                                  requests[q].weekStartDate)
           isNew == found = Null
           weeklyDiscipline ==
               IF isNew
               THEN [id |-> 0,
                     userId |-> requests[q].userId,
                     weekStartDate |-> requests[q].weekStartDate,
                     weekEndDate |-> requests[q].weekEndDate,
                     disciplines |-> <<>>,
                     version |-> 0]
               ELSE found
           merged == MergeAll([disciplines |-> weeklyDiscipline.disciplines,
                               modified |-> {}, pushed |-> 0], requests[q].data)
       IN  requests' = [requests EXCEPT ![q] =
                [@ EXCEPT !.doc = [weeklyDiscipline EXCEPT !.disciplines = merged.disciplines],
                          !.isNew = isNew, !.modified = merged.modified,
                          !.pushed = merged.pushed, !.pc = "save"]]
    /\ UNCHANGED <<isInitialized, jobs, tasks, process, runs, notifications, users,
                   weeklyDisciplines, now, timeZone>>

\* document.save() of a document read from the store: Mongoose sends the tracked changes.
\* An assignment to disciplines[i] is a $set of that element, guarded by the version the
\* document was read at; a push alone is a $push that increments the version; both
\* together are a $set of the whole array, guarded and incrementing.  A guard that
\* matches no document is a VersionError (Null here).
SaveUpdate(stored, mem, modified, pushed) ==
    IF modified # {} /\ stored.version # mem.version THEN Null
    ELSE IF modified # {} /\ pushed > 0
    THEN [stored EXCEPT !.disciplines = mem.disciplines, !.version = @ + 1]
    ELSE IF pushed > 0
    THEN [stored EXCEPT
            !.disciplines = @ \o SubSeq(mem.disciplines,
                                        Len(mem.disciplines) - pushed + 1,
                                        Len(mem.disciplines)),
            !.version = @ + 1]
    ELSE [stored EXCEPT
            !.disciplines = [i \in DOMAIN @ |->
                                IF i \in modified THEN mem.disciplines[i] ELSE @[i]]]

\* saveProgress: await weeklyDiscipline.save() resolves or rejects
SaveSave(q) ==
    /\ Awaiting(q, "saveProgress", "save")
    /\ IF requests[q].isNew
       THEN LET doc == PreSave([requests[q].doc EXCEPT
                                    !.id = NewWeeklyId(weeklyDisciplines)], TRUE)
            IN  IF UniqueIndexAllows(weeklyDisciplines, doc)
                THEN /\ weeklyDisciplines' = weeklyDisciplines \cup {doc}
                     /\ requests' = [requests EXCEPT ![q] =
                            [@ EXCEPT !.doc = doc, !.pc = "done", !.outcome = "ok"]]
                ELSE /\ UNCHANGED weeklyDisciplines
                     /\ requests' = [requests EXCEPT ![q] =
                            [@ EXCEPT !.pc = "done", !.outcome = "conflict"]]
       ELSE LET stored == CHOOSE d \in weeklyDisciplines : d.id = requests[q].doc.id
                saved == SaveUpdate(stored, requests[q].doc, requests[q].modified,
                                    requests[q].pushed)
            IN  IF saved # Null
                THEN /\ weeklyDisciplines' = (weeklyDisciplines \ {stored}) \cup {saved}
                     /\ requests' = [requests EXCEPT ![q] =
                            [@ EXCEPT !.pc = "done", !.outcome = "ok"]]
                ELSE /\ UNCHANGED weeklyDisciplines
                     /\ requests' = [requests EXCEPT ![q] =
                            [@ EXCEPT !.pc = "done", !.outcome = "version_error"]]
    /\ UNCHANGED <<isInitialized, jobs, tasks, process, runs, notifications, users,
                   now, timeZone>>

(***************************************************************************)
(* services/discipline.service.ts: calculateCompletionRate,                *)
(* calculateStreak and getDashboardStats                                   *)
(***************************************************************************)
HourMs == 3600000

DayMs == 86400000

\* date.toISOString().split('T')[0]: the calendar date, in UTC, of an instant given in
\* local time; as a day number
toISODate(date, zone) == date.day + ((date.ms - zone * HourMs) \div DayMs)

\* the number of weekdays flagged true in one entry
CompletedDays(disc) ==
    Cardinality({i \in DOMAIN DaysOfWeek : disc[DaysOfWeek[i]] = TRUE})

WeeklyCreditPerDay(disc) == CompletedDays(disc)

\* calculateCompletionRate, weekly branch: 1 if at least one day is completed
WeeklyCredit(disc) ==
    LET completed == \E i \in DOMAIN DaysOfWeek : disc[DaysOfWeek[i]] = TRUE
    IN  IF completed THEN 1 ELSE 0

\* the loop of calculateCompletionRate
RECURSIVE RequiredCompleted(_)
RequiredCompleted(disciplines) ==
    IF disciplines = <<>> THEN 0
    ELSE LET disc == Head(disciplines)
             isDaily == includes(DailyDisciplines, disc.discipline)
             isWeekly == includes(WeeklyDisciplines, disc.discipline)
         IN  (IF isDaily THEN CompletedDays(disc)
              ELSE IF isWeekly THEN WeeklyCredit(disc)
              ELSE 0) + RequiredCompleted(Tail(disciplines))

TotalRequired == 16

calculateCompletionRate(disciplines) ==
    LET requiredCompleted == RequiredCompleted(disciplines)
        rate == IF TotalRequired > 0
                THEN RoundPercent(requiredCompleted, TotalRequired) ELSE 0
    IN  [requiredCompleted |-> requiredCompleted, totalRequired |-> TotalRequired,
         rate |-> rate]

\* dayNames of calculateStreak, indexed by getDay() + 1
dayNames ==
    <<"sunday", "monday", "tuesday", "wednesday", "thursday", "friday", "saturday">>

DayCompletedByEveryEntry(week, dayOfWeek) ==
    \A i \in DOMAIN week.disciplines : week.disciplines[i][dayOfWeek] = TRUE

\* calculateStreak: is any discipline completed for this day?
DayCompleted(week, dayOfWeek) ==
    \E i \in DOMAIN week.disciplines : week.disciplines[i][dayOfWeek] = TRUE

\* WeeklyDiscipline.find({userId}).sort({weekStartDate: -1})
RECURSIVE SortWeeksDesc(_)
SortWeeksDesc(S) ==
    IF S = {} THEN <<>>
    ELSE LET w == CHOOSE w \in S : \A v \in S : ~DateLt(w.weekStartDate, v.weekStartDate)
         IN  <<w>> \o SortWeeksDesc(S \ {w})

\* Map.prototype.set
MapSet(map, k, v) == [x \in DOMAIN map \cup {k} |-> IF x = k THEN v ELSE map[x]]

\* calculateStreak: the loop over the seven dates of one week
RECURSIVE MapWeek(_, _, _, _, _)
MapWeek(map, week, i, today, zone) ==
    IF i >= 7 THEN map
    ELSE LET currentDate == AddDays(week.weekStartDate, i)
             dayOfWeek == dayNames[getDay(currentDate) + 1]
             dateKey == toISODate(currentDate, zone)
         IN  IF DateLt(today, currentDate)
             THEN MapWeek(map, week, i + 1, today, zone)
             ELSE MapWeek(MapSet(map, dateKey, DayCompleted(week, dayOfWeek)),
                          week, i + 1, today, zone)

\* calculateStreak: dateCompletionMap
RECURSIVE BuildMap(_, _, _, _)
BuildMap(map, weeks, today, zone) ==
    IF weeks = <<>> THEN map
    ELSE BuildMap(MapWeek(map, Head(weeks), 0, today, zone), Tail(weeks), today, zone)

MaxWalk == 40           \* turns of the while loop of calculateStreak that are followed

SkipsEveryUnrecordedDay(dateKey, todayKey, recorded) == ~recorded

\* calculateStreak: "if today has no data yet, don't break the streak"
SkipsToday(dateKey, todayKey, recorded) == dateKey = todayKey /\ ~recorded

\* calculateStreak: the while (true) loop.  acc holds the streak and, for the analysis,
\* the turns taken, the days skipped and the last date looked up; a walk that is still
\* going after MaxWalk turns is cut off and marked.
RECURSIVE StreakWalk(_, _, _, _, _)
StreakWalk(map, checkDate, todayKey, zone, acc) ==
    LET dateKey == toISODate(checkDate, zone)
        recorded == dateKey \in DOMAIN map
        seen == [acc EXCEPT !.turns = @ + 1, !.lastChecked = checkDate]
    IN  IF acc.turns >= MaxWalk THEN [acc EXCEPT !.cutOff = TRUE]
        ELSE IF ~recorded \/ ~map[dateKey]
        THEN IF SkipsToday(dateKey, todayKey, recorded)
             THEN StreakWalk(map, AddDays(checkDate, -1), todayKey, zone,
                             [seen EXCEPT !.skipped = @ + 1])
             ELSE seen
        ELSE StreakWalk(map, AddDays(checkDate, -1), todayKey, zone,
                        [seen EXCEPT !.streak = @ + 1])

\* calculateStreak(userId), given the store, the clock and the time zone it runs in
calculateStreak(store, date, zone, userId) ==
    LET today == setHoursEnd(date)
        allWeeks == SortWeeksDesc({d \in store : d.userId = userId})
        start == [streak |-> 0, turns |-> 0, skipped |-> 0, lastChecked |-> today,
                  cutOff |-> FALSE]
    IN  IF Len(allWeeks) = 0 THEN start
        ELSE StreakWalk(BuildMap(<< >>, allWeeks, today, zone), setHoursStart(today),
                        toISODate(today, zone), zone, start)

TasksCompletedCapped(disciplines) == RequiredCompleted(disciplines)

\* getDashboardStats: total tasks completed (all checkboxes)
RECURSIVE TasksCompleted(_)
TasksCompleted(disciplines) ==
    IF disciplines = <<>> THEN 0
    ELSE CompletedDays(Head(disciplines)) + TasksCompleted(Tail(disciplines))

TotalTasks == 28

\* WeeklyDisciplineSchema.methods.getTotalCompleted
getTotalCompleted(doc) == TasksCompleted(doc.disciplines)

\* getDashboardStats: one element of weeklyProgress
WeeklyProgress(disc) ==
    LET isWeekly == includes(WeeklyDisciplines, disc.discipline)
    IN  [discipline |-> disc.discipline, isWeekly |-> isWeekly,
         completedDays |-> CompletedDays(disc),
         requiredDays |-> IF isWeekly THEN 1 ELSE 7]

\* getDashboardStats, from the current week's document and the walk of calculateStreak
DashboardStats(currentWeek, walk) ==
    LET completion == calculateCompletionRate(currentWeek.disciplines)
    IN  [tasksCompleted |-> TasksCompleted(currentWeek.disciplines),
         totalTasks |-> TotalTasks,
         requiredTasksCompleted |-> completion.requiredCompleted,
         totalRequiredTasks |-> completion.totalRequired,
         completionRate |-> completion.rate,
         currentStreak |-> walk.streak,
         weeklyProgress |-> [i \in DOMAIN currentWeek.disciplines |->
                                WeeklyProgress(currentWeek.disciplines[i])],
         walk |-> walk]

\* calculateStreak(userId) called on its own, up to its await
CallCalculateStreak(userId) ==
    /\ process = "up"
    /\ NextRequest <= MaxRequests
    /\ AddRequest([NewRequest("calculateStreak", userId, <<>>,
                              getWeekStartDate(now), getWeekEndDate(now))
                      EXCEPT !.pc = "streak"])
    /\ UNCHANGED <<isInitialized, jobs, tasks, process, runs, notifications, users,
                   weeklyDisciplines, now, timeZone>>

\* getDashboardStats(userId) up to the first await of getOrCreateCurrentWeek
CallGetDashboardStats(userId) ==
    /\ process = "up"
    /\ NextRequest <= MaxRequests
    /\ AddRequest([NewRequest("getDashboardStats", userId, <<>>,
                              getWeekStartDate(now), getWeekEndDate(now))
                      EXCEPT !.at = now])
    /\ UNCHANGED <<isInitialized, jobs, tasks, process, runs, notifications, users,
                   weeklyDisciplines, now, timeZone>>

\* calculateStreak: await find().sort() resolves and the streak is computed;
\* getDashboardStats computes the rest of its result
StreakFind(q) ==
    /\ \E op \in {"calculateStreak", "getDashboardStats"} : Awaiting(q, op, "streak")
    /\ LET walk == calculateStreak(weeklyDisciplines, now, timeZone, requests[q].userId)
       IN  requests' = [requests EXCEPT ![q] =
                [@ EXCEPT !.pc = "done", !.outcome = "ok",
                          !.result = IF requests[q].op = "getDashboardStats"
                                     THEN DashboardStats(requests[q].doc, walk)
                                     ELSE [currentStreak |-> walk.streak,
                                           walk |-> walk]]]
    /\ UNCHANGED <<isInitialized, jobs, tasks, process, runs, notifications, users,
                   weeklyDisciplines, now, timeZone>>

(***************************************************************************)
(* controllers/notification.controller.ts: POST trigger-reminders          *)
(***************************************************************************)
ApiTriggerReminders(scheduleTime) ==
    /\ process = "up"
    /\ NextRun <= MaxRuns
    /\ IF scheduleTime \in NotificationSchedule
       THEN StartRun("none", "api", [action |-> "reminders", slot |-> scheduleTime])
       ELSE runs' = [r \in DOMAIN runs \cup {NextRun} |->
                        IF r = NextRun
                        THEN Finish(NewRun("none", "api",
                                           [action |-> "unknown", slot |-> Undefined],
                                           "done", now), "bad_request")
                        ELSE runs[r]]
    /\ UNCHANGED <<isInitialized, jobs, tasks, process, notifications, users,
                   weeklyDisciplines, now, timeZone, requests>>

(***************************************************************************)
(* controllers/notification.controller.ts: DELETE cleanup                  *)
(***************************************************************************)
\* daysOld ? parseInt(daysOld, 10) : 30; the query value is absent or empty (<<>>) or a string
DefaultDaysOld == 30

DaysOf(daysOld) == IF daysOld = <<>> THEN DefaultDaysOld ELSE parseInt(daysOld)

ApiCleanup(daysOld) ==
    /\ process = "up"
    /\ NextRun <= MaxRuns
    /\ LET run == NewRun("none", "api", [action |-> "cleanup", slot |-> Undefined],
                         "deleteMany", now)
           valid == daysOld = <<>> \/ IsNumeric(daysOld)    \* days is not NaN
       IN  runs' = [r \in DOMAIN runs \cup {NextRun} |->
                       IF r = NextRun
                       THEN [run EXCEPT
                                !.daysOld = IF valid THEN DaysOf(daysOld) ELSE 0,
                                !.cutoffDate = IF valid THEN CutoffDate(now, DaysOf(daysOld))
                                               ELSE InvalidDate]
                       ELSE runs[r]]
    /\ UNCHANGED <<isInitialized, jobs, tasks, process, notifications, users,
                   weeklyDisciplines, now, timeZone, requests>>

(***************************************************************************)
(* services/notification.service.ts: markAsRead, markAllAsRead and         *)
(* deleteNotification, as called by the notification controller            *)
(***************************************************************************)
FindByIdOnly(coll, id, userId) ==
    LET found == {n \in coll : n.id = id}
    IN  IF found = {} THEN Null ELSE CHOOSE n \in found : TRUE

\* Notification.findOne({_id, userId}), and what deleteOne({_id, userId}) matches
FindOwnNotification(coll, id, userId) ==
    LET found == {n \in coll : n.id = id /\ n.userId = userId}
    IN  IF found = {} THEN Null ELSE CHOOSE n \in found : TRUE

\* the stored document a save() of a loaded document updates, by _id
StoredNotification(coll, id) ==
    LET found == {n \in coll : n.id = id}
    IN  IF found = {} THEN Null ELSE CHOOSE n \in found : TRUE

\* markAsRead(notificationId, userId) up to await notification.save(); a null result is
\* answered with 404 by the controller
MarkAsRead(id, userId) ==
    /\ process = "up"
    /\ NextRequest <= MaxRequests
    /\ LET notification == FindOwnNotification(notifications, id, userId)
           req == NewRequest("markAsRead", userId, id, Null, Null)
       IN  AddRequest(IF notification = Null
                      THEN [req EXCEPT !.pc = "done", !.outcome = "not_found"]
                      ELSE [req EXCEPT !.pc = "save",
                                       !.doc = [notification EXCEPT !.status = "read",
                                                                    !.readAt = now]])
    /\ UNCHANGED <<isInitialized, jobs, tasks, process, runs, notifications, users,
                   weeklyDisciplines, now, timeZone>>

\* await notification.save() resolves: the changed paths are written to the stored
\* document; it rejects when the document is no longer in the collection
MarkSave(q) ==
    /\ Awaiting(q, "markAsRead", "save")
    /\ LET stored == StoredNotification(notifications, requests[q].doc.id)
       IN  IF stored = Null
           THEN /\ UNCHANGED notifications
                /\ requests' = [requests EXCEPT ![q] =
                       [@ EXCEPT !.pc = "done", !.outcome = "threw"]]
           ELSE /\ notifications' = (notifications \ {stored}) \cup
                       {[stored EXCEPT !.status = requests[q].doc.status,
                                       !.readAt = requests[q].doc.readAt]}
                /\ requests' = [requests EXCEPT ![q] =
                       [@ EXCEPT !.pc = "done", !.outcome = "ok",
                                 !.result = requests[q].doc]]
    /\ UNCHANGED <<isInitialized, jobs, tasks, process, runs, users, weeklyDisciplines, now,
                   timeZone>>

AllOf(coll, userId) == {n \in coll : n.userId = userId}

\* what updateMany({userId, status: UNREAD}, ...) matches
UnreadOf(coll, userId) == {n \in coll : n.userId = userId /\ n.status = "unread"}

\* markAllAsRead(userId): one updateMany; returns result.modifiedCount
MarkAllAsRead(userId) ==
    /\ process = "up"
    /\ NextRequest <= MaxRequests
    /\ LET matched == UnreadOf(notifications, userId)
       IN  /\ notifications' = (notifications \ matched) \cup
                  {[n EXCEPT !.status = "read", !.readAt = now] : n \in matched}
           /\ AddRequest([NewRequest("markAllAsRead", userId, Null, Null, Null) EXCEPT
                             !.pc = "done", !.outcome = "ok",
                             !.result = Cardinality(matched)])
    /\ UNCHANGED <<isInitialized, jobs, tasks, process, runs, users, weeklyDisciplines, now,
                   timeZone>>

\* deleteNotification(notificationId, userId): one deleteOne; deletedCount > 0, and the
\* controller answers false with 404
DeleteNotification(id, userId) ==
    /\ process = "up"
    /\ NextRequest <= MaxRequests
    /\ LET found == FindOwnNotification(notifications, id, userId)
       IN  /\ notifications' = notifications \ {found}
           /\ AddRequest([NewRequest("deleteNotification", userId, id, Null, Null) EXCEPT
                             !.pc = "done",
                             !.outcome = IF found # Null THEN "ok" ELSE "not_found",
                             !.result = found # Null])
    /\ UNCHANGED <<isInitialized, jobs, tasks, process, runs, users, weeklyDisciplines, now,
                   timeZone>>

\* GET my incomplete tasks: getMyIncompleteTasks(userId) with its one findOne
GetMyIncompleteTasks(userId) ==
    /\ process = "up"
    /\ NextRequest <= MaxRequests
    /\ AddRequest([NewRequest("getMyIncompleteTasks", userId, Null, Null, Null) EXCEPT
                      !.pc = "done", !.outcome = "ok",
                      !.result = getMyIncompleteTasks(weeklyDisciplines, now, userId)])
    /\ UNCHANGED <<isInitialized, jobs, tasks, process, runs, notifications, users,
                   weeklyDisciplines, now, timeZone>>

(***************************************************************************)
(* server.ts: the process                                                  *)
(***************************************************************************)
\* gracefulShutdown(signal): stopAll(), then server.close(...) and the 10 s timer are pending
GracefulShutdown ==
    /\ process \in {"up", "closing"}
    /\ DoStopAll
    /\ process' = "closing"
    /\ UNCHANGED <<runs, notifications, users, weeklyDisciplines, now, timeZone, requests>>

\* process.exit(...): whatever is still awaiting is gone
Exit ==
    /\ process = "closing"
    /\ process' = "exited"
    /\ runs' = [r \in DOMAIN runs |->
                   IF InFlight(r) THEN Finish(runs[r], "killed") ELSE runs[r]]
    /\ requests' = [q \in DOMAIN requests |->
                       IF requests[q].outcome = "pending"
                       THEN [requests[q] EXCEPT !.outcome = "killed"] ELSE requests[q]]
    /\ UNCHANGED <<isInitialized, jobs, tasks, notifications, users, weeklyDisciplines,
                   now, timeZone>>

(***************************************************************************)
(* The scheduler, its jobs and the process.                                *)
(***************************************************************************)
User(role, isActive, fullName) ==
    [role |-> role, isActive |-> isActive, fullName |-> fullName,
     email |-> Head(fullName)]

Notice(id, userId, status, createdAt, readAt) ==
    [id |-> id, userId |-> userId, title |-> "Welcome", message |-> Null,
     type |-> "general", status |-> status, scheduleTime |-> Undefined,
     incompleteTasks |-> <<>>, readAt |-> readAt, createdAt |-> createdAt]

InitCommon ==
    /\ isInitialized = FALSE
    /\ jobs = << >>
    /\ tasks = << >>
    /\ process = "up"
    /\ runs = << >>
    /\ requests = << >>

SchedInit ==
    /\ InitCommon
    /\ now = Date(45, 0)
    /\ timeZone = 0
    /\ users = [u \in {1, 2} |->
                   IF u = 1 THEN User("worker", TRUE, <<"Ada", "Obi">>)
                   ELSE User("executive", TRUE, <<"Kehinde", "Jeremiah">>)]
    /\ weeklyDisciplines = {}
    /\ notifications = {Notice(1, 1, "read", Date(3, 0), Date(4, 0)),
                        Notice(2, 1, "unread", Date(3, 0), Null)}

\* the names triggerJob is called with: the four jobs and a name that is no job
TriggerNames == Range(JobNames) \cup {"weekly-digest"}

\* the names stopJob is called with: a reminder job, the cleanup job and a name that is no job
StopNames == {"morning-reminder", "cleanup-notifications", "weekly-digest"}

SchedNext ==
    \/ Initialize
    \/ \E name \in StopNames : StopJob(name)
    \/ StopAll
    \/ GracefulShutdown
    \/ Exit
    \/ \E t \in DOMAIN tasks : CronFire(t)
    \/ \E name \in TriggerNames : TriggerJob(name)
    \/ \E r \in DOMAIN runs : FindWorkers(r)
    \/ \E r \in DOMAIN runs : CheckWorker(r)
    \/ \E r \in DOMAIN runs : RateWorker(r)
    \/ \E r \in DOMAIN runs : CreateReminder(r)
    \/ \E r \in DOMAIN runs : Cleanup(r)
    \/ \E r \in DOMAIN runs : StoreFails(r)

SchedSpec == SchedInit /\ [][SchedNext]_vars

(***************************************************************************)
(* The reminder generator over a population: the subjects, their records    *)
(* and the day are drawn at the start; an administrator calls               *)
(* createTaskReminders through the API or triggerJob, one call at a time,   *)
(* and a subject polls its incomplete tasks once.                          *)
(***************************************************************************)
AllDays == Range(DaysOfWeek)

CompleteDisciplines == [i \in 1..4 |-> Progress(SpiritualDisciplines[i], AllDays)]

PartialDisciplines ==
    <<Progress("prayer", AllDays), Progress("bible_study", {"monday"}),
      Progress("fasting", {}), Progress("evangelism", {"sunday"})>>

\* a subject: the user document and the records the subject has (by shape)
SubjectCases ==
    {<<"worker", TRUE, "none">>, <<"worker", TRUE, "complete">>,
     <<"worker", TRUE, "partial">>, <<"worker", TRUE, "lastweek">>,
     <<"worker", FALSE, "none">>, <<"executive", TRUE, "none">>}

Subjects == {1, 2}

SubjectNames == <<<<"Ada", "Obi">>, <<"Bola", "Ade", "Ojo">>>>

WeeklyDoc(id, userId, date, disciplines) ==
    [id |-> id, userId |-> userId, weekStartDate |-> getWeekStartDate(date),
     weekEndDate |-> getWeekEndDate(date), disciplines |-> disciplines, version |-> 0]

RecordsOf(u, shape, date) ==
    CASE shape = "none"     -> {}
      [] shape = "complete" -> {WeeklyDoc(u, u, date, CompleteDisciplines)}
      [] shape = "partial"  -> {WeeklyDoc(u, u, date, PartialDisciplines)}
      [] shape = "lastweek" -> {WeeklyDoc(u, u, AddDays(date, -7), CompleteDisciplines)}

\* a Monday, a Wednesday and a Sunday of one week, at 07:00
ReminderDays == {42, 44, 48}

SevenAm == 25200000

ReminderInit ==
    /\ InitCommon
    /\ \E d \in ReminderDays : now = Date(d, SevenAm)
    /\ timeZone = 0
    /\ \E c \in [Subjects -> SubjectCases] :
          /\ users = [u \in Subjects |-> User(c[u][1], c[u][2], SubjectNames[u])]
          /\ weeklyDisciplines = UNION {RecordsOf(u, c[u][3], now) : u \in Subjects}
    /\ notifications = {}

NoRunInFlight == \A r \in DOMAIN runs : ~InFlight(r)

ReminderNext ==
    \/ NoRunInFlight /\ \E scheduleTime \in {"7am", "9pm", "noon"} :
                            ApiTriggerReminders(scheduleTime)
    \/ NoRunInFlight /\ TriggerJob("afternoon-reminder")
    \/ \E r \in DOMAIN runs : FindWorkers(r)
    \/ \E r \in DOMAIN runs : CheckWorker(r)
    \/ \E r \in DOMAIN runs : RateWorker(r)
    \/ \E r \in DOMAIN runs : CreateReminder(r)
    \/ \E r \in DOMAIN runs : StoreFails(r)
    \/ requests = << >> /\ \E u \in Subjects : GetMyIncompleteTasks(u)

ReminderSpec == ReminderInit /\ [][ReminderNext]_vars

(***************************************************************************)
(* The discipline record store under concurrent requests.                  *)
(***************************************************************************)
\* Wednesday 00:00 and Sunday 23:59:59.999 of one week
DisciplineInstants == {Date(44, 0), Date(48, EndOfDayMs)}

\* data.weekStartDate: absent, or a Saturday afternoon of the week before
WeekOverrides == {Null, Date(40, SevenAm)}

Payloads ==
    {<<Progress("prayer", {"monday"})>>,
     <<Progress("fasting", {"wednesday"})>>,
     <<Progress("bible_study", {"monday", "tuesday"}), Progress("prayer", {"sunday"})>>}

DisciplineInit ==
    /\ InitCommon
    /\ now \in DisciplineInstants
    /\ timeZone = 0
    /\ users = [u \in Subjects |-> User("worker", TRUE, SubjectNames[u])]
    /\ weeklyDisciplines = {}
    /\ notifications = {}

DisciplineNext ==
    \/ \E u \in Subjects : CallGetOrCreateCurrentWeek(u)
    \/ \E u \in Subjects, p \in Payloads, w \in WeekOverrides :
          CallSaveProgress(u, [disciplines |-> p, weekStartDate |-> w])
    \/ \E q \in DOMAIN requests : GetFindOne(q)
    \/ \E q \in DOMAIN requests : GetCreate(q)
    \/ \E q \in DOMAIN requests : SaveFindOne(q)
    \/ \E q \in DOMAIN requests : SaveSave(q)

DisciplineSpec == DisciplineInit /\ [][DisciplineNext]_vars

(***************************************************************************)
(* The same requests made one after the other: a client that awaits each   *)
(* response before its next call.                                          *)
(***************************************************************************)
\* the payloads above and one that lists a kind twice
SerialPayloads ==
    Payloads \cup {<<Progress("prayer", {"tuesday"}), Progress("prayer", {"sunday"})>>}

NoRequestPending == \A q \in DOMAIN requests : requests[q].outcome # "pending"

SerialNext ==
    \/ NoRequestPending /\ \E u \in Subjects : CallGetOrCreateCurrentWeek(u)
    \/ NoRequestPending /\ \E u \in Subjects, p \in SerialPayloads, w \in WeekOverrides :
          CallSaveProgress(u, [disciplines |-> p, weekStartDate |-> w])
    \/ \E q \in DOMAIN requests : GetFindOne(q)
    \/ \E q \in DOMAIN requests : GetCreate(q)
    \/ \E q \in DOMAIN requests : SaveFindOne(q)
    \/ \E q \in DOMAIN requests : SaveSave(q)

SerialSpec == DisciplineInit /\ [][SerialNext]_vars

(***************************************************************************)
(* controllers/discipline.controller.ts: saveProgress.  The request body   *)
(* is parsed by saveProgressSchema and the parsed value, not the body, is  *)
(* passed to the service.  A body entry is an object that holds a          *)
(* discipline and any of the seven weekdays.                               *)
(***************************************************************************)
\* a schema whose weekdays have no default: the parsed entry is the body's entry
SchemaWithoutDefaults(raw) == raw

\* disciplineProgressSchema: each weekday is z.boolean().default(false)
disciplineProgressSchema(raw) ==
    Progress(raw.discipline,
             {day \in Range(DaysOfWeek) : day \in DOMAIN raw /\ raw[day] = TRUE})

\* saveProgressSchema.safeParse: between one and four entries, each of a known discipline
ParseSucceeds(body) ==
    /\ Len(body.disciplines) >= 1 /\ Len(body.disciplines) <= 4
    /\ \A i \in DOMAIN body.disciplines :
          body.disciplines[i].discipline \in Range(SpiritualDisciplines)

saveProgressSchema(body) ==
    [disciplines |-> [i \in DOMAIN body.disciplines |->
                          disciplineProgressSchema(body.disciplines[i])],
     weekStartDate |-> body.weekStartDate]

\* POST /api/disciplines/save: a body that fails validation is answered with an error
\* and the service is not called
PostSave(userId, body) ==
    IF ParseSucceeds(body)
    THEN CallSaveProgress(userId, saveProgressSchema(body))
    ELSE /\ process = "up"
         /\ NextRequest <= MaxRequests
         /\ AddRequest([NewRequest("saveProgress", userId, body.disciplines, Null, Null)
                           EXCEPT !.pc = "done", !.outcome = "invalid"])
         /\ UNCHANGED <<isInitialized, jobs, tasks, process, runs, notifications, users,
                        weeklyDisciplines, now, timeZone>>

\* Request bodies: entries that leave weekdays out, that set one to false, that name a
\* kind twice, and an empty list
Bodies ==
    {<<[discipline |-> "prayer", tuesday |-> TRUE]>>,
     <<[discipline |-> "prayer", monday |-> FALSE, wednesday |-> TRUE]>>,
     <<[discipline |-> "bible_study"], [discipline |-> "fasting", friday |-> TRUE]>>,
     <<[discipline |-> "prayer", tuesday |-> TRUE], [discipline |-> "prayer", sunday |-> TRUE]>>,
     << >>}

\* Records a subject may already have for the week: none, or one saved earlier
StoredDisciplines ==
    {<< >>,
     <<Progress("prayer", {"monday", "tuesday"}), Progress("bible_study", {"thursday"})>>}

ReplaceInit ==
    /\ InitCommon
    /\ now = Date(44, SevenAm)
    /\ timeZone = 0
    /\ users = [u \in Subjects |-> User("worker", TRUE, SubjectNames[u])]
    /\ \E s \in StoredDisciplines :
          weeklyDisciplines = IF s = << >> THEN {} ELSE {WeeklyDoc(1, 1, now, s)}
    /\ notifications = {}

\* Saves arrive one after the other
ReplaceNext ==
    \/ NoRequestPending /\ \E u \in Subjects, b \in Bodies :
          PostSave(u, [disciplines |-> b, weekStartDate |-> Null])
    \/ \E q \in DOMAIN requests : SaveFindOne(q)
    \/ \E q \in DOMAIN requests : SaveSave(q)

ReplaceSpec == ReplaceInit /\ [][ReplaceNext]_vars

(***************************************************************************)
(* calculateStreak and getDashboardStats over a history: the records of    *)
(* subject 1 for four weeks, the day and the time zone are drawn at the    *)
(* start; subject 2 has no record.  Calls are made one after the other.    *)
(***************************************************************************)
\* the Mondays of two earlier weeks, of the current week and of the next week
HistoryWeeks == {28, 35, 42, 49}

\* the disciplines list a week's record may hold; << >> stands for no record
WeekShapes(w) ==
    CASE w = 28 -> {<< >>, CompleteDisciplines}
      [] w = 35 -> {<< >>, CompleteDisciplines,
                    <<Progress("evangelism", {"saturday", "sunday"})>>,
                    <<Progress("prayer", {"monday"})>>}
      [] w = 42 -> {<< >>, DefaultDisciplines, CompleteDisciplines, PartialDisciplines,
                    <<Progress("fasting", {"tuesday", "wednesday", "thursday"})>>,
                    <<Progress("prayer", {"thursday", "friday", "saturday", "sunday"}),
                      Progress("evangelism", {"monday"}),
                      Progress("bible_study", {"sunday"})>>}
      [] w = 49 -> {<< >>, CompleteDisciplines}

\* a Monday, a Thursday and a Sunday of the current week
StreakDays == {42, 45, 48}

\* UTC-1, UTC and UTC+1 (Africa/Lagos)
TimeZones == {-1, 0, 1}

StreakInit ==
    /\ InitCommon
    /\ \E d \in StreakDays : now = Date(d, SevenAm)
    /\ timeZone \in TimeZones
    /\ users = [u \in Subjects |-> User("worker", TRUE, SubjectNames[u])]
    /\ \E h \in [HistoryWeeks -> UNION {WeekShapes(w) : w \in HistoryWeeks}] :
          /\ \A w \in HistoryWeeks : h[w] \in WeekShapes(w)
          /\ weeklyDisciplines =
                {WeeklyDoc(w, 1, Date(w, 0), h[w]) : w \in {v \in HistoryWeeks : h[v] # << >>}}
    /\ notifications = {}

StreakNext ==
    \/ NoRequestPending /\ \E u \in Subjects : CallCalculateStreak(u)
    \/ NoRequestPending /\ \E u \in Subjects : CallGetDashboardStats(u)
    \/ \E q \in DOMAIN requests : GetFindOne(q)
    \/ \E q \in DOMAIN requests : GetCreate(q)
    \/ \E q \in DOMAIN requests : StreakFind(q)

StreakSpec == StreakInit /\ [][StreakNext]_vars

(***************************************************************************)
(* Week boundaries: calls on every weekday, at the first and the last      *)
(* millisecond of the day, with a week override on every weekday of the    *)
(* week before; one subject, calls made one after the other.               *)
(***************************************************************************)
WeekInstants == {Date(d, m) : d \in 42..48, m \in {0, EndOfDayMs}}

WeekStartOverrides == {Null} \cup {Date(d, m) : d \in 35..41, m \in {0, EndOfDayMs}}

WeekInit ==
    /\ InitCommon
    /\ now \in WeekInstants
    /\ timeZone = 0
    /\ users = [u \in Subjects |-> User("worker", TRUE, SubjectNames[u])]
    /\ weeklyDisciplines = {}
    /\ notifications = {}

WeekNext ==
    \/ NoRequestPending /\ CallGetOrCreateCurrentWeek(1)
    \/ NoRequestPending /\ \E w \in WeekStartOverrides :
          CallSaveProgress(1, [disciplines |-> <<Progress("prayer", {"monday"})>>,
                               weekStartDate |-> w])
    \/ \E q \in DOMAIN requests : GetFindOne(q)
    \/ \E q \in DOMAIN requests : GetCreate(q)
    \/ \E q \in DOMAIN requests : SaveFindOne(q)
    \/ \E q \in DOMAIN requests : SaveSave(q)

WeekSpec == WeekInit /\ [][WeekNext]_vars

(***************************************************************************)
(* getDashboardStats around midnight: the call starts in the last           *)
(* millisecond of a Thursday or of a Sunday, and the clock may pass         *)
(* midnight between its awaits (getOrCreateCurrentWeek and calculateStreak  *)
(* each read the clock).                                                    *)
(***************************************************************************)
MidnightDays == {45, 48}

\* the clock passes midnight
Tick ==
    /\ now.ms = EndOfDayMs /\ now.day \in MidnightDays
    /\ now' = Date(now.day + 1, 0)
    /\ UNCHANGED <<isInitialized, jobs, tasks, process, runs, notifications, users,
                   weeklyDisciplines, timeZone, requests>>

MidnightInit ==
    /\ InitCommon
    /\ \E d \in MidnightDays : now = Date(d, EndOfDayMs)
    /\ timeZone \in TimeZones
    /\ users = [u \in Subjects |-> User("worker", TRUE, SubjectNames[u])]
    /\ \E h \in [HistoryWeeks -> UNION {WeekShapes(w) : w \in HistoryWeeks}] :
          /\ \A w \in HistoryWeeks : h[w] \in WeekShapes(w)
          /\ weeklyDisciplines =
                {WeeklyDoc(w, 1, Date(w, 0), h[w]) : w \in {v \in HistoryWeeks : h[v] # << >>}}
    /\ notifications = {}

MidnightNext ==
    \/ NoRequestPending /\ \E u \in Subjects : CallGetDashboardStats(u)
    \/ \E q \in DOMAIN requests : GetFindOne(q)
    \/ \E q \in DOMAIN requests : GetCreate(q)
    \/ \E q \in DOMAIN requests : StreakFind(q)
    \/ Tick

MidnightSpec == MidnightInit /\ [][MidnightNext]_vars

(***************************************************************************)
(* The notification store: reads, deletions and the retention cleanup,     *)
(* next to a reminder run that creates a notification.  A run or a request *)
(* starts when no run is in progress; a markAsRead that awaits its save    *)
(* is overlapped by the requests and the runs that start after it.         *)
(***************************************************************************)
\* the clock stands at 07:00 of day 45.  Stored: of subject 1 an unread and a read
\* notification 40 days old; of subject 2 a read one created exactly 30 days ago, a read
\* one and an unread one from the day before
StoredNotifications ==
    {Notice(1, 1, "unread", Date(5, SevenAm), Null),
     Notice(2, 1, "read", Date(5, SevenAm), Date(6, 0)),
     Notice(3, 2, "read", Date(15, SevenAm), Date(16, 0)),
     Notice(4, 2, "read", Date(44, 0), Date(44, SevenAm)),
     Notice(5, 2, "unread", Date(44, 0), Null)}

\* the notification a request names and who asks: subject 1 its own unread one and the
\* unread one of subject 2, subject 2 its own read one
Asked == {<<1, 1>>, <<5, 1>>, <<3, 2>>}

\* ?daysOld= : absent, "7d", "0", "soon"
DaysOldQueries == {<<>>, <<"7", "d">>, <<"0">>, <<"s", "o", "o", "n">>}

NotificationInit ==
    /\ InitCommon
    /\ now = Date(45, SevenAm)
    /\ timeZone = 0
    /\ users = [u \in Subjects |-> User(IF u = 1 THEN "worker" ELSE "executive", TRUE,
                                         SubjectNames[u])]
    /\ weeklyDisciplines = {}
    /\ notifications = StoredNotifications

NotificationNext ==
    \/ NoRunInFlight /\ \E a \in Asked : MarkAsRead(a[1], a[2])
    \/ \E q \in DOMAIN requests : MarkSave(q)
    \/ NoRunInFlight /\ \E u \in Subjects : MarkAllAsRead(u)
    \/ NoRunInFlight /\ \E a \in Asked : DeleteNotification(a[1], a[2])
    \/ NoRunInFlight /\ \E daysOld \in DaysOldQueries : ApiCleanup(daysOld)
    \/ NoRunInFlight /\ TriggerJob("cleanup-notifications")
    \/ \E r \in DOMAIN runs : Cleanup(r)
    \/ NoRunInFlight /\ ApiTriggerReminders("7am")
    \/ \E r \in DOMAIN runs : FindWorkers(r)
    \/ \E r \in DOMAIN runs : CheckWorker(r)
    \/ \E r \in DOMAIN runs : RateWorker(r)
    \/ \E r \in DOMAIN runs : CreateReminder(r)

NotificationSpec == NotificationInit /\ [][NotificationNext]_vars

(***************************************************************************)
(* Properties of the scheduler (checked under SchedSpec).                  *)
(***************************************************************************)
Running == isInitialized

AllJobsRegistered ==
    /\ DOMAIN jobs = Range(JobNames)
    /\ \A name \in DOMAIN jobs : jobs[name] \in DOMAIN tasks /\ tasks[jobs[name]].name = name

AllJobsStarted == AllJobsRegistered /\ \A name \in DOMAIN jobs : tasks[jobs[name]].started

OneTimerPerName ==
    \A t1, t2 \in DOMAIN tasks : tasks[t1].name = tasks[t2].name => t1 = t2

\* a run that this step starts
StartsRun(r) == r \in DOMAIN runs' /\ r \notin DOMAIN runs

\* C1: initialize() while the scheduler is Running changes nothing; whenever the
\* scheduler is Running the registry holds exactly the four jobs, each under its own
\* name, and no job name has two timers.
C1_InitializeOnce ==
    /\ [](OneTimerPerName /\ (Running => AllJobsRegistered))
    /\ [][(Running /\ Initialize) => UNCHANGED <<schedulerVars, runs, notifications>>]_vars

\* Running with the four timers started and a cron-fired run under way: initialize() is a
\* no-op here, so this is also the state after any number of further initialize() calls.
C1_Witness ==
    /\ Running /\ AllJobsStarted /\ process = "up"
    /\ \E r \in DOMAIN runs : runs[r].origin = "cron"

\* C2: stopAll() (also as called by gracefulShutdown) leaves no registered job started,
\* an empty registry and the scheduler Uninitialized, from any state; initialize() from
\* Uninitialized registers the four jobs, starts them and makes the scheduler Running.
C2_StopAllThenInitialize ==
    /\ [][(StopAll \/ GracefulShutdown) =>
            /\ jobs' = << >>
            /\ ~Running'
            /\ \A t \in DOMAIN tasks' : ~tasks'[t].started
            /\ \A name \in DOMAIN jobs : jobs[name] \notin DOMAIN tasks']_vars
    /\ [][(~Running /\ Initialize) => (Running' /\ AllJobsStarted')]_vars
    /\ [](process = "up" => ENABLED StopAll)

\* stopAll() has been called after the scheduler was Running (a cron-fired run exists),
\* and the process is up, so initialize() can follow.
C2_Witness ==
    /\ ~Running /\ jobs = << >> /\ tasks = << >> /\ process = "up"
    /\ \E r \in DOMAIN runs : runs[r].origin = "cron" /\ runs[r].pc = "find"

\* C6: when the action of a cron-fired run fails, the handler catches the failure: the
\* run ends "caught", the scheduler state, the registry, the timers and the process are
\* unchanged, so the job's timer fires again whenever it could before.
C6_HandlerCatches ==
    [][\A r \in DOMAIN runs :
          (/\ InFlight(r) /\ runs[r].origin = "cron"
           /\ runs'[r].outcome \notin {"pending", "returned", "killed"})
          => /\ runs'[r].outcome = "caught"
             /\ UNCHANGED <<schedulerVars, process>>
             /\ \A t \in DOMAIN tasks : CanFire(t) => CanFire(t)']_vars

\* a cron-fired run failed and was caught, and the scheduler is Running with all four
\* timers started
C6_Witness ==
    /\ Running /\ AllJobsStarted /\ process = "up"
    /\ \E r \in DOMAIN runs : runs[r].outcome = "caught"

\* C7: while the scheduler is Uninitialized (after stopAll() and until initialize()) no
\* timer can fire and no cron-fired run starts; stopAll() leaves the runs in progress as
\* they are, and a run in progress can take its next step whatever the scheduler state.
RunStep(r) ==
    \/ FindWorkers(r) \/ CheckWorker(r) \/ RateWorker(r) \/ CreateReminder(r) \/ Cleanup(r)

C7_NoNewRunAfterStopAll ==
    /\ [](~Running => \A t \in DOMAIN tasks : ~CanFire(t))
    /\ [][~Running => ~\E r \in DOMAIN runs' : StartsRun(r) /\ runs'[r].origin = "cron"]_vars
    /\ [][(StopAll \/ GracefulShutdown) => runs' = runs]_vars
    /\ [](\A r \in DOMAIN runs : (InFlight(r) /\ process # "exited") => ENABLED RunStep(r))

\* stopAll() was called while a cron-fired run was in progress, and the run has gone on
\* to its last await
C7_Witness ==
    /\ ~Running /\ process = "up"
    /\ \E r \in DOMAIN runs : InFlight(r) /\ runs[r].origin = "cron" /\ runs[r].pc = "create"

\* C8: for each job name at most one run of that job's action is in progress.
C8_OneRunPerJob ==
    \A i \in DOMAIN JobNames : Cardinality(RunsInProgress(JobNames[i])) <= 1

\* C9: triggerJob(name) with a known name starts exactly one run of that job's action,
\* whatever the scheduler state; with another name it throws, and the notifications, the
\* scheduler state, the registry and the other runs are unchanged.
ActionOfJob(name) ==
    CASE name = "morning-reminder"      -> <<"reminders", "7am">>
      [] name = "afternoon-reminder"    -> <<"reminders", "1pm">>
      [] name = "evening-reminder"      -> <<"reminders", "9pm">>
      [] name = "cleanup-notifications" -> <<"cleanup", Undefined>>

C9_TriggerJob ==
    /\ [][\A name \in TriggerNames : TriggerJob(name) =>
            /\ UNCHANGED <<schedulerVars, notifications, process>>
            /\ \E r \in DOMAIN runs' :
                  /\ DOMAIN runs' = DOMAIN runs \cup {r} /\ r \notin DOMAIN runs
                  /\ \A o \in DOMAIN runs : runs'[o] = runs[o]
                  /\ IF name \in Range(JobNames)
                     THEN /\ InFlight(r)'
                          /\ <<runs'[r].action, runs'[r].slot>> = ActionOfJob(name)
                          /\ runs'[r].job = name
                     ELSE runs'[r].outcome = "unknown_job"]_vars
    /\ [](\A r \in DOMAIN runs :
            runs[r].outcome = "unknown_job" => runs[r].count = 0 /\ runs[r].created = {})
    /\ []((process = "up" /\ NextRun <= MaxRuns) =>
            \A name \in TriggerNames : ENABLED TriggerJob(name))

\* triggerJob was called with an unknown name, and with a known name while the scheduler is
\* Uninitialized
C9_Witness ==
    /\ ~Running /\ jobs = << >>
    /\ \E r \in DOMAIN runs : runs[r].outcome = "unknown_job"
    /\ \E r \in DOMAIN runs : InFlight(r) /\ runs[r].origin = "trigger"

(***************************************************************************)
(* Properties of the reminder generator (checked under ReminderSpec).      *)
(***************************************************************************)
\* the subjects createTaskReminders is to remind: active workers with incomplete entries
ToRemind ==
    {u \in DOMAIN users :
        /\ users[u].role = "worker" /\ users[u].isActive
        /\ checkIncompleteTasks(weeklyDisciplines, now, u) # <<>>}

\* the notifications a run created for a subject
CreatedFor(r, u) == {n \in notifications : n.id \in runs[r].created /\ n.userId = u}

\* C3: a call of createTaskReminders(slot) that returns has created exactly one
\* notification for every active worker with incomplete entries (a task reminder, unread,
\* for that slot, listing all the subject's incomplete entries) and none for anyone else,
\* and returns the number of notifications it created.
C3_OneReminderPerSubject ==
    /\ [](\A r \in DOMAIN runs : runs[r].outcome = "returned" =>
            /\ runs[r].count = Cardinality(runs[r].created)
            /\ runs[r].created \subseteq {n.id : n \in notifications}
            /\ \A u \in DOMAIN users :
                  Cardinality(CreatedFor(r, u)) = IF u \in ToRemind THEN 1 ELSE 0
            /\ \A u \in DOMAIN users : \A n \in CreatedFor(r, u) :
                  /\ n.type = "task_reminder" /\ n.status = "unread"
                  /\ n.incompleteTasks = checkIncompleteTasks(weeklyDisciplines, now, u)
                  /\ Len(n.message.disciplinesList) = Len(n.incompleteTasks))
    /\ [][\A r \in DOMAIN runs : \A n \in notifications' \ notifications :
            (InFlight(r) /\ n.id \in runs'[r].created) => n.scheduleTime = runs[r].slot]_vars

\* a call has returned 1: one of the two subjects was reminded, the other was not
C3_Witness ==
    \E r \in DOMAIN runs :
        /\ runs[r].outcome = "returned" /\ runs[r].count = 1
        /\ Cardinality(ToRemind) = 1
        /\ \E u \in DOMAIN users : users[u].role = "worker" /\ u \notin ToRemind

\* C4: every call that returns adds its own notifications: two calls that have returned
\* (for the same slot or not) have each left a notification of their own for every subject
\* with incomplete entries, so such a subject holds one reminder per call.
C4_NoDeduplication ==
    \A r1, r2 \in DOMAIN runs :
        (r1 # r2 /\ runs[r1].outcome = "returned" /\ runs[r2].outcome = "returned") =>
            /\ runs[r1].created \cap runs[r2].created = {}
            /\ \A u \in ToRemind : CreatedFor(r1, u) # {} /\ CreatedFor(r2, u) # {}

\* two calls for the same slot on the same day have returned, and a subject holds two
\* reminders for that slot
C4_Witness ==
    \E r1, r2 \in DOMAIN runs : \E u \in ToRemind :
        /\ r1 # r2 /\ runs[r1].outcome = "returned" /\ runs[r2].outcome = "returned"
        /\ \E n1 \in CreatedFor(r1, u), n2 \in CreatedFor(r2, u) :
              /\ n1.id # n2.id /\ n1.scheduleTime = n2.scheduleTime
              /\ n1.createdAt = n2.createdAt

\* C5: a call in which the store failed on one subject has still created the notification
\* of every other subject with incomplete entries.
C5_FailureSkipsOnlyItsSubject ==
    \A r \in DOMAIN runs :
        (runs[r].outcome \in {"threw", "caught"} /\ runs[r].failedOn # 0) =>
            \A u \in ToRemind \ {runs[r].failedOn} : CreatedFor(r, u) # {}

(***************************************************************************)
(* Properties of the discipline record store (checked under DisciplineSpec)*)
(***************************************************************************)
SameWeek(a, b) == a.userId = b.userId /\ a.weekStartDate = b.weekStartDate

\* a request that is about to insert a document for a week
Inserting(q) ==
    /\ requests[q].outcome = "pending"
    /\ \/ requests[q].pc = "create"
       \/ requests[q].pc = "save" /\ requests[q].isNew

\* C10: the store never holds two records for one (userId, weekStartDate); a request
\* that inserts a record for a week that has got one meanwhile ends in a conflict and
\* leaves the store as it is.
C10_OneRecordPerWeek ==
    /\ [](\A d1, d2 \in weeklyDisciplines : SameWeek(d1, d2) => d1 = d2)
    /\ [][\A q \in DOMAIN requests :
            (/\ Inserting(q) /\ requests'[q] # requests[q]
             /\ \E d \in weeklyDisciplines : SameWeek(d, requests[q]))
            => /\ requests'[q].outcome = "conflict"
               /\ weeklyDisciplines' = weeklyDisciplines]_vars
    /\ [](\A q \in DOMAIN requests : requests[q].outcome = "conflict" =>
            Cardinality({d \in weeklyDisciplines : SameWeek(d, requests[q])}) = 1)

\* of two overlapping requests for the same week one created the record and the other,
\* a saveProgress, ended in a conflict
C10_Witness ==
    \E q1, q2 \in DOMAIN requests :
        /\ requests[q1].outcome = "ok" /\ requests[q2].outcome = "conflict"
        /\ requests[q2].op = "saveProgress"
        /\ SameWeek(requests[q1], requests[q2])
        /\ Cardinality(weeklyDisciplines) = 1

(***************************************************************************)
(* Properties of saveProgress (checked under DisciplineSpec / SerialSpec). *)
(***************************************************************************)
\* the entries of a disciplines list for one kind
EntriesOf(disciplines, kind) ==
    {i \in DOMAIN disciplines : disciplines[i].discipline = kind}

\* the kinds a payload lists
KindsOf(payload) == {payload[i].discipline : i \in DOMAIN payload}

\* the stored record of a request's (userId, weekStartDate) holds the payload's flags
Holds(q) ==
    \E d \in weeklyDisciplines :
        /\ SameWeek(d, requests[q])
        /\ \A i \in DOMAIN requests[q].data :
              \E j \in DOMAIN d.disciplines : d.disciplines[j] = requests[q].data[i]

\* C11: when two saveProgress calls for one (userId, weekStartDate), one with a payload of
\* kind A only and the other of kind B only, have both completed, the record holds the
\* flags written for A and the flags written for B.
C11_NoLostUpdate ==
    \A q1, q2 \in DOMAIN requests :
        (/\ q1 # q2
         /\ requests[q1].op = "saveProgress" /\ requests[q2].op = "saveProgress"
         /\ SameWeek(requests[q1], requests[q2])
         /\ requests[q1].outcome # "pending" /\ requests[q2].outcome # "pending"
         /\ Cardinality(KindsOf(requests[q1].data)) = 1
         /\ Cardinality(KindsOf(requests[q2].data)) = 1
         /\ KindsOf(requests[q1].data) # KindsOf(requests[q2].data))
        => Holds(q1) /\ Holds(q2)

\* the last entry a payload lists for a kind
LastOf(payload, kind) ==
    payload[CHOOSE i \in EntriesOf(payload, kind) :
                \A j \in EntriesOf(payload, kind) : j <= i]

\* the step in which a saveProgress call's save() resolves or rejects
Saved(q) ==
    /\ requests[q].op = "saveProgress"
    /\ requests[q].pc = "save" /\ requests'[q].pc = "done"

\* C12: in every sequence of saveProgress calls no record ever holds two entries for one
\* kind (also after a payload that lists a kind twice), and a save leaves every entry
\* of a kind that its payload does not list as it was, while the kinds it lists hold the
\* payload's flags.
C12_MergeByKind ==
    /\ [](\A d \in weeklyDisciplines : \A kind \in Range(SpiritualDisciplines) :
            Cardinality(EntriesOf(d.disciplines, kind)) <= 1)
    /\ [][\A q \in DOMAIN requests : Saved(q) =>
            /\ requests'[q].outcome = "ok"
            /\ \A d \in weeklyDisciplines : SameWeek(d, requests[q]) =>
                 \E d2 \in weeklyDisciplines' :
                    /\ d2.id = d.id
                    /\ \A i \in DOMAIN d.disciplines :
                          d.disciplines[i].discipline \notin KindsOf(requests[q].data)
                          => d2.disciplines[i] = d.disciplines[i]
            /\ \E d2 \in weeklyDisciplines' :
                    /\ SameWeek(d2, requests[q])
                    /\ \A kind \in KindsOf(requests[q].data) :
                          \E j \in DOMAIN d2.disciplines :
                              d2.disciplines[j] = LastOf(requests[q].data, kind)]_vars

\* a save of one kind has followed a save of other kinds on the same week, and the
\* record holds the flags of both
C12_Witness ==
    \E q1, q2 \in DOMAIN requests :
        /\ q1 < q2 /\ SameWeek(requests[q1], requests[q2])
        /\ requests[q1].op = "saveProgress" /\ requests[q2].op = "saveProgress"
        /\ requests[q1].outcome = "ok" /\ requests[q2].outcome = "ok"
        /\ Cardinality(KindsOf(requests[q2].data)) = 1
        /\ KindsOf(requests[q1].data) \cap KindsOf(requests[q2].data) = {}
        /\ Holds(q1) /\ Holds(q2)

\* C13: every record in the store holds exactly one entry for each of the four kinds.
C13_AllFourKinds ==
    \A d \in weeklyDisciplines : \A kind \in Range(SpiritualDisciplines) :
        Cardinality(EntriesOf(d.disciplines, kind)) = 1

(***************************************************************************)
(* Properties of checkIncompleteTasks on the records the requests leave    *)
(* (checked under DisciplineSpec).                                         *)
(***************************************************************************)
\* today's weekday, counted from Monday = 1 (day 0 of the calendar is a Monday)
TodayIndex == (now.day % 7) + 1

\* the subject's record of the week that contains today flags the day for the kind
Flagged(u, kind, day) ==
    \E d \in weeklyDisciplines :
        /\ d.userId = u
        /\ d.weekStartDate.day <= now.day /\ now.day <= d.weekStartDate.day + 6
        /\ \E i \in DOMAIN d.disciplines :
              d.disciplines[i].discipline = kind /\ d.disciplines[i][day]

\* the weekdays Monday..today that are not flagged for the kind, Monday first
MissingDays(u, kind) ==
    SelectSeq(SubSeq(DaysOfWeek, 1, TodayIndex), LAMBDA day : ~Flagged(u, kind, day))

\* the entries of checkIncompleteTasks(u) for one kind
ResultEntries(u, kind) ==
    SelectSeq(checkIncompleteTasks(weeklyDisciplines, now, u),
              LAMBDA e : e.discipline = kind)

\* C14: for every daily kind, checkIncompleteTasks holds an entry for the kind exactly when
\* some weekday of Monday..today is not flagged for it, and the entry lists exactly those
\* weekdays, Monday first.
C14_DailyMissingDays ==
    \A u \in DOMAIN users : \A kind \in Range(DailyDisciplines) :
        ResultEntries(u, kind) =
            IF MissingDays(u, kind) # <<>>
            THEN <<[discipline |-> kind, missingDays |-> MissingDays(u, kind)]>>
            ELSE <<>>

\* C15: for every weekly kind, checkIncompleteTasks holds an entry for the kind, with
\* missingDays = <<"week">>, exactly when today is Sunday and no weekday is flagged for
\* the kind; on Monday..Saturday, or with a weekday flagged, it holds none.
C15_WeeklyOnlyOnSunday ==
    \A u \in DOMAIN users : \A kind \in Range(WeeklyDisciplines) :
        ResultEntries(u, kind) =
            IF TodayIndex = 7 /\ ~\E i \in DOMAIN DaysOfWeek : Flagged(u, kind, DaysOfWeek[i])
            THEN <<[discipline |-> kind, missingDays |-> <<"week">>]>>
            ELSE <<>>

(***************************************************************************)
(* Properties of calculateStreak (checked under StreakSpec).               *)
(***************************************************************************)
\* the record covers the calendar day
Covers(d, day) == d.weekStartDate.day <= day /\ day <= d.weekStartDate.day + 6

\* some record of the subject covers the day
CoveredDay(u, day) == \E d \in weeklyDisciplines : d.userId = u /\ Covers(d, day)

\* the record of the week containing the day flags some discipline on that weekday
CompletedOn(u, day) ==
    \E d \in weeklyDisciplines :
        /\ d.userId = u /\ Covers(d, day)
        /\ \E i \in DOMAIN d.disciplines :
              d.disciplines[i][DaysOfWeek[day - d.weekStartDate.day + 1]]

\* the number of consecutive completed days that ends with the day
RECURSIVE RunEnding(_, _)
RunEnding(u, day) == IF CompletedOn(u, day) THEN 1 + RunEnding(u, day - 1) ELSE 0

\* the step in which a call of calculateStreak returns
StreakDone(q) == requests[q].pc = "streak" /\ requests'[q].pc = "done"

\* C16, as stated: calculateStreak returns the number of consecutive days, counted
\* backward from today, that are completed, stopping at the first day that is absent from
\* the history or has no flag.
C16_StreakFromToday ==
    [][\A q \in DOMAIN requests : StreakDone(q) =>
          requests'[q].result.currentStreak = RunEnding(requests[q].userId, now.day)]_vars

\* C16, amended: when a record covers today, calculateStreak returns the number of
\* consecutive days, counted backward from today, that are completed, stopping at the
\* first day that is absent from the history or has no flag; flags after today are ignored.
C16_StreakWhenTodayCovered ==
    [][\A q \in DOMAIN requests :
          (StreakDone(q) /\ CoveredDay(requests[q].userId, now.day)) =>
              requests'[q].result.currentStreak = RunEnding(requests[q].userId, now.day)]_vars

\* on a Thursday with Tuesday, Wednesday and Thursday completed, Monday not, and nothing
\* after Thursday ignored in vain (next week is all flagged), a call has returned 3
C16_Witness ==
    \E q \in DOMAIN requests :
        /\ requests[q].outcome = "ok" /\ requests[q].result # Null
        /\ requests[q].result.currentStreak = 3
        /\ now.day = 45
        /\ \A day \in {43, 44, 45} : CompletedOn(requests[q].userId, day)
        /\ CoveredDay(requests[q].userId, 42) /\ ~CompletedOn(requests[q].userId, 42)
        /\ CompletedOn(requests[q].userId, 49)

\* C17: when no record covers today and yesterday is completed, calculateStreak returns
\* the length of the run of completed days that ends yesterday.
C17_AbsentTodayKeepsStreak ==
    [][\A q \in DOMAIN requests :
          (/\ StreakDone(q)
           /\ ~CoveredDay(requests[q].userId, now.day)
           /\ CompletedOn(requests[q].userId, now.day - 1)) =>
              requests'[q].result.currentStreak =
                  RunEnding(requests[q].userId, now.day - 1)]_vars

\* the earliest day a record of the subject covers
EarliestDay(u) ==
    LET starts == {d.weekStartDate.day : d \in {e \in weeklyDisciplines : e.userId = u}}
    IN  CHOOSE m \in starts : \A n \in starts : m <= n

\* the days up to today that a record of the subject covers
PastDays(u) == {day \in 0..now.day : CoveredDay(u, day)}

DashboardDone(q) ==
    requests[q].op = "getDashboardStats" /\ requests[q].outcome = "ok"

\* the (entry, weekday) pairs of a disciplines list that are flagged true
Flags(disciplines) ==
    {c \in (DOMAIN disciplines) \X Range(DaysOfWeek) : disciplines[c[1]][c[2]]}

\* the flags of the entries of daily kinds
DailyFlags(disciplines) ==
    {c \in Flags(disciplines) : disciplines[c[1]].discipline \in Range(DailyDisciplines)}

\* the entries of weekly kinds with at least one flag
WeeklyDone(disciplines) ==
    {i \in DOMAIN disciplines :
        /\ disciplines[i].discipline \in Range(WeeklyDisciplines)
        /\ \E c \in Flags(disciplines) : c[1] = i}

\* the flags of the entries of weekly kinds
WeeklyFlags(disciplines) ==
    {c \in Flags(disciplines) : disciplines[c[1]].discipline \in Range(WeeklyDisciplines)}

\* C19: for the disciplines list of the current week's record (at most one entry per kind),
\* requiredCompleted is the number of flags of the daily kinds plus the number of weekly
\* kinds with at least one flag, totalRequired is 16 and rate is 100 * requiredCompleted
\* / 16 rounded half up: an integer in 0..100, 0 when no flag is set (and for the empty
\* list), 100 when every flag of the four kinds is set.
C19_CompletionRate ==
    /\ calculateCompletionRate(<< >>).rate = 0
    /\ \A q \in DOMAIN requests : DashboardDone(q) =>
          LET disciplines == requests[q].doc.disciplines
              result == requests[q].result
              expected == Cardinality(DailyFlags(disciplines))
                             + Cardinality(WeeklyDone(disciplines))
          IN  /\ \A kind \in Range(SpiritualDisciplines) :
                    Cardinality(EntriesOf(disciplines, kind)) <= 1
              /\ result.requiredTasksCompleted = expected
              /\ result.totalRequiredTasks = 16
              /\ 32 * result.completionRate <= 200 * expected + 16
              /\ 200 * expected + 16 < 32 * (result.completionRate + 1)
              /\ result.completionRate \in 0..100
              /\ Flags(disciplines) = {} => result.completionRate = 0
              /\ disciplines = CompleteDisciplines => result.completionRate = 100

\* a dashboard of a record with six required tasks done, a kind missing and a weekly
\* kind with one day marked: 37.5 is reported as 38
C19_Witness ==
    \E q \in DOMAIN requests :
        /\ DashboardDone(q)
        /\ requests[q].result.requiredTasksCompleted = 6
        /\ requests[q].result.completionRate = 38
        /\ EntriesOf(requests[q].doc.disciplines, "fasting") = {}
        /\ Cardinality(WeeklyDone(requests[q].doc.disciplines)) = 1

\* C20: tasksCompleted is the number of true flags over all entries of the current week's
\* record, of whatever kind, reported against totalTasks = 28; it exceeds
\* requiredTasksCompleted by the number of days marked on weekly kinds beyond the first of
\* each, so the two differ exactly when a weekly kind has more than one day marked.
C20_RawTasksCompleted ==
    \A q \in DOMAIN requests : DashboardDone(q) =>
        LET disciplines == requests[q].doc.disciplines
            result == requests[q].result
            extra == Cardinality(WeeklyFlags(disciplines))
                        - Cardinality(WeeklyDone(disciplines))
        IN  /\ result.tasksCompleted = Cardinality(Flags(disciplines))
            /\ result.tasksCompleted = getTotalCompleted(requests[q].doc)
            /\ result.totalTasks = 28
            /\ result.tasksCompleted - result.requiredTasksCompleted = extra
            /\ (result.tasksCompleted # result.requiredTasksCompleted) <=>
                  \E i \in DOMAIN disciplines :
                      /\ disciplines[i].discipline \in Range(WeeklyDisciplines)
                      /\ Cardinality({c \in Flags(disciplines) : c[1] = i}) > 1

\* a dashboard of a record whose fasting entry has three days marked: tasksCompleted is 3
\* and requiredTasksCompleted is 1
C20_Witness ==
    \E q \in DOMAIN requests :
        /\ DashboardDone(q)
        /\ requests[q].result.tasksCompleted = 3
        /\ requests[q].result.requiredTasksCompleted = 1
        /\ \E i \in DOMAIN requests[q].doc.disciplines :
              /\ requests[q].doc.disciplines[i].discipline = "fasting"
              /\ Cardinality({c \in Flags(requests[q].doc.disciplines) : c[1] = i}) = 3

(***************************************************************************)
(* Properties of the week boundaries (checked under WeekSpec).             *)
(***************************************************************************)
\* a Monday at midnight (day 0 of the calendar is a Monday)
MondayMidnight(date) == date.day % 7 = 0 /\ date.ms = 0

\* C21: for every instant t a call computes its week from, getWeekStartDate(t) is a
\* Monday at midnight, weekStart <= t < weekStart + 7 days (a Sunday is mapped 6 days
\* back), and getWeekStartDate(getWeekStartDate(t)) = getWeekStartDate(t).
C21_WeekStart ==
    \A q \in DOMAIN requests : requests[q].at # Null =>
        LET t == requests[q].at
            weekStart == requests[q].weekStartDate
        IN  /\ weekStart = getWeekStartDate(t)
            /\ MondayMidnight(weekStart)
            /\ weekStart.day <= t.day /\ t.day < weekStart.day + 7
            /\ t.day % 7 = 6 => weekStart.day = t.day - 6
            /\ getWeekStartDate(weekStart) = weekStart

\* a saveProgress call was given the last millisecond of a Sunday and computed the
\* Monday six days before it
C21_Witness ==
    \E q \in DOMAIN requests :
        /\ requests[q].op = "saveProgress"
        /\ requests[q].at = Date(41, EndOfDayMs)
        /\ requests[q].weekStartDate = Date(35, 0)

OlderThan(n, h) == DateLt(n.createdAt, Date(now.day - h, now.ms))

\* a step in which run r, a call of cleanupOldNotifications, returns
CleanupReturns(r) ==
    /\ r \in DOMAIN runs /\ InFlight(r) /\ runs[r].action = "cleanup"
    /\ runs'[r].outcome = "returned"

\* C23: cleanupOldNotifications(h) deletes exactly the notifications that are read and
\* were created more than h days ago (h = 30 for the job and when the request names no
\* horizon) and returns their number; an unread or dismissed notification of any age and
\* a read one not older than h days stay.
C23_CleanupDeletesOldRead ==
    [][\A r \in DOMAIN runs : CleanupReturns(r) =>
          LET h == runs[r].daysOld
              gone == {n \in notifications : n.status = "read" /\ OlderThan(n, h)}
          IN  /\ runs[r].origin # "api" => h = 30
              /\ notifications' = notifications \ gone
              /\ runs'[r].count = Cardinality(gone)
              /\ \A n \in notifications :
                    (n.status \in {"unread", "dismissed"} \/ ~OlderThan(n, h))
                        => n \in notifications'
              /\ \A n \in notifications : \A s \in {"unread", "dismissed"} :
                    CleanupMatches({[n EXCEPT !.status = s]}, runs[r].cutoffDate) = {}
      ]_vars

\* the cleanup job has run on the stored notifications: it removed the read notification
\* that was 40 days old and returned 1; the unread one of the same age, the read one
\* created exactly 30 days before and the two of the day before are still stored
C23_Witness ==
    /\ requests = << >>
    /\ \E r \in DOMAIN runs : runs[r].outcome = "returned" /\ runs[r].count = 1
    /\ notifications = {n \in StoredNotifications : n.id # 2}


\* a step in which request q is made
Starts(q) == q \notin DOMAIN requests /\ q \in DOMAIN requests'

\* the stored notifications with an id that belong to someone other than userId
OfOthers(id, userId) == {n \in notifications : n.id = id /\ n.userId # userId}

\* C24: markAsRead(id, u) and deleteNotification(id, u) for a notification owned by a user
\* other than u return null / false and leave it unchanged; markAllAsRead(u) changes
\* exactly u's unread notifications and returns their number; and a stored notification
\* is changed or removed only by a request of its owner or by a returning cleanup.
C24_OwnerOnly ==
    [][/\ \A q \in DOMAIN requests' : \A n \in notifications :
             (/\ Starts(q)
              /\ requests'[q].op \in {"markAsRead", "deleteNotification"}
              /\ n \in OfOthers(requests'[q].data, requests'[q].userId)) =>
                /\ requests'[q].op = "markAsRead" =>
                      /\ requests'[q].pc = "done" /\ requests'[q].result = Null
                      /\ n \in notifications'
                /\ requests'[q].op = "deleteNotification" =>
                      /\ requests'[q].result = FALSE
                      /\ n \in notifications'
       /\ \A q \in DOMAIN requests' :
             (Starts(q) /\ requests'[q].op = "markAllAsRead") =>
                LET u == requests'[q].userId
                    own == {n \in notifications : n.userId = u /\ n.status = "unread"}
                IN  /\ requests'[q].result = Cardinality(own)
                    /\ notifications' = (notifications \ own) \cup
                          {[n EXCEPT !.status = "read", !.readAt = now] : n \in own}
       /\ \A n \in notifications \ notifications' :
             \/ \E r \in DOMAIN runs : CleanupReturns(r)
             \/ \E q \in DOMAIN requests' :
                   /\ requests'[q].userId = n.userId
                   /\ Starts(q) \/ requests'[q].pc # requests[q].pc
      ]_vars

\* subject 1 asked to mark the unread notification of subject 2 as read and got null,
\* then marked all its own as read and got 1: the notification of subject 2 is as it
\* was stored, the one of subject 1 is read
C24_Witness ==
    /\ \E q \in DOMAIN requests :
          /\ requests[q].op = "markAsRead" /\ requests[q].userId = 1
          /\ requests[q].data = 5 /\ requests[q].outcome = "not_found"
    /\ \E q \in DOMAIN requests :
          /\ requests[q].op = "markAllAsRead" /\ requests[q].userId = 1
          /\ requests[q].result = 1
    /\ \E n \in notifications : n.id = 1 /\ n.status = "read"
    /\ \E n \in StoredNotifications : n.id = 5 /\ n \in notifications


\* the stored notification with the id of n after a step, if it is still stored
After(n) == {k \in notifications' : k.id = n.id}

Unread(coll, userId) == {n \in coll : n.userId = userId /\ n.status = "unread"}

\* notifications that a step creates
Created == {k \in notifications' : \A n \in notifications : n.id # k.id}

\* C30: status only moves forward.  A notification is created unread with no readAt; a
\* read notification never becomes unread again; a read notification has readAt set; no
\* notification is ever dismissed; unread notifications of a user only appear by
\* creation; markAllAsRead(u) leaves u with no unread notification, so that a second
\* markAllAsRead(u) with no notification created in between returns 0.
C30_StatusMovesForward ==
    /\ [](\A n \in notifications : /\ n.status = "read" => n.readAt # Null
                                  /\ n.status # "dismissed")
    /\ [][/\ \A k \in Created : k.status = "unread" /\ k.readAt = Null
          /\ \A n \in notifications : \A k \in After(n) :
                /\ n.status = "read" => k.status = "read"
                /\ k.status = "unread" => k = n
          /\ \A q \in DOMAIN requests' :
                (Starts(q) /\ requests'[q].op = "markAllAsRead") =>
                   LET u == requests'[q].userId
                   IN  /\ Unread(notifications', u) = {}
                       /\ (/\ \E p \in DOMAIN requests :
                                requests[p].op = "markAllAsRead" /\ requests[p].userId = u
                           /\ \A r \in DOMAIN runs : runs[r].created = {})
                             => requests'[q].result = 0
         ]_vars

\* subject 2 has marked all as read twice, with a cleanup in between and no reminder run:
\* the first call returned 1, the second 0
C30_Witness ==
    /\ DOMAIN requests = {1, 2}
    /\ \A q \in DOMAIN requests : requests[q].op = "markAllAsRead" /\ requests[q].userId = 2
    /\ requests[1].result = 1 /\ requests[2].result = 0
    /\ \E r \in DOMAIN runs : runs[r].outcome = "returned" /\ runs[r].created = {}
    /\ \E n \in notifications : n.id = 5 /\ n.status = "read" /\ n.readAt = now


(***************************************************************************)
(* Properties of getStatus and stopJob (checked under SchedSpec).          *)
(***************************************************************************)
\* the names getStatus() lists
Listed == {getStatus[i].name : i \in DOMAIN getStatus}

\* C25: getStatus() returns exactly one entry per job in the registry, each with
\* running = true: four entries after initialize(), the stopped job still listed as
\* running after stopJob(name), and the empty list after stopAll() and before the first
\* initialize().
C25_StatusIsPresence ==
    /\ [](/\ Listed = DOMAIN jobs
          /\ Len(getStatus) = Cardinality(DOMAIN jobs)
          /\ \A i \in DOMAIN getStatus : getStatus[i].running = TRUE
          /\ Running => Len(getStatus) = 4
          /\ ~Running => getStatus = << >>)
    /\ [][(~Running /\ Initialize) => Listed' = Range(JobNames)]_vars
    /\ [][\A name \in StopNames : (StopJob(name) /\ name \in DOMAIN jobs) =>
             /\ ~tasks'[jobs'[name]].started
             /\ \E i \in DOMAIN getStatus' :
                   getStatus'[i] = [name |-> name, running |-> TRUE]]_vars
    /\ [][(StopAll \/ GracefulShutdown) => getStatus' = << >>]_vars

\* the cleanup job has been stopped by stopJob and cannot fire, and getStatus() lists four
\* jobs, the stopped one among them, as running
C25_Witness ==
    /\ Running /\ process = "up"
    /\ ~tasks[jobs["cleanup-notifications"]].started
    /\ tasks[jobs["morning-reminder"]].started
    /\ Len(getStatus) = 4
    /\ \E i \in DOMAIN getStatus :
          getStatus[i] = [name |-> "cleanup-notifications", running |-> TRUE]


\* a job that is in the registry with its timer stopped
Stopped(name) == name \in DOMAIN jobs /\ ~tasks[jobs[name]].started

\* C27: stopJob(name) stops only the named job's timer and leaves the scheduler state and
\* the registry as they are; a stopped job stays stopped, through initialize() too, until
\* stopAll() empties the registry, and is started again only by initialize() on an
\* Uninitialized scheduler; no cron-fired run of a stopped job starts; the timers of the
\* other jobs can fire as before.
C27_StopJobIsSticky ==
    /\ [][\A name \in StopNames : (StopJob(name) /\ name \in DOMAIN jobs) =>
             /\ Running' = Running /\ jobs' = jobs
             /\ Stopped(name)'
             /\ \A t \in DOMAIN tasks : t # jobs[name] =>
                   /\ t \in DOMAIN tasks' /\ tasks'[t] = tasks[t]
                   /\ CanFire(t) => CanFire(t)']_vars
    /\ [][\A i \in DOMAIN JobNames : Stopped(JobNames[i]) =>
             /\ Initialize => (Running /\ UNCHANGED schedulerVars)
             /\ \/ Stopped(JobNames[i])'
                \/ (StopAll \/ GracefulShutdown) /\ jobs' = << >> /\ ~Running']_vars
    /\ [][\A i \in DOMAIN JobNames :
             (~(JobNames[i] \in DOMAIN jobs /\ tasks[jobs[JobNames[i]]].started) /\
               (JobNames[i] \in DOMAIN jobs' /\ tasks'[jobs'[JobNames[i]]].started))
                 => (~Running /\ jobs = << >> /\ Initialize)]_vars
    /\ [][\A r \in DOMAIN runs' :
             (StartsRun(r) /\ runs'[r].origin = "cron") => ~Stopped(runs'[r].job)]_vars
    /\ [](\A t \in DOMAIN tasks :
             (CanFire(t) /\ NextRun <= MaxRuns) => ENABLED CronFire(t))

\* the cleanup job was stopped by stopJob; the scheduler is Running with the four jobs
\* registered, and a run fired by the morning reminder's timer is under way
C27_Witness ==
    /\ Running /\ process = "up" /\ AllJobsRegistered
    /\ Stopped("cleanup-notifications")
    /\ \A i \in DOMAIN JobNames :
          JobNames[i] # "cleanup-notifications" => ~Stopped(JobNames[i])
    /\ \E r \in DOMAIN runs :
          InFlight(r) /\ runs[r].origin = "cron" /\ runs[r].job = "morning-reminder"


(***************************************************************************)
(* The reminder generator reads the record store (checked under            *)
(* ReminderSpec).                                                          *)
(***************************************************************************)
\* the subject has no record for the week that contains today
NoRecordIn(store, u) == ~\E d \in store : d.userId = u /\ Covers(d, now.day)

NoRecord(u) == NoRecordIn(weeklyDisciplines, u)

\* what four all-false entries give: both daily kinds with every weekday Monday..today
\* and, on a Sunday, both weekly kinds with "week"
AllFalseTasks ==
    [i \in 1..2 |-> [discipline |-> DailyDisciplines[i],
                     missingDays |-> SubSeq(DaysOfWeek, 1, TodayIndex)]]
    \o (IF TodayIndex = 7
        THEN [i \in 1..2 |-> [discipline |-> WeeklyDisciplines[i], missingDays |-> <<"week">>]]
        ELSE << >>)

\* C26: no step of createTaskReminders, checkIncompleteTasks or getMyIncompleteTasks
\* changes the record store; for a subject with no record of the current week they
\* evaluate four all-false entries, so the subject is reported incomplete for both daily
\* kinds, and the store still holds no record for that subject afterwards.
C26_ReadsOnly ==
    /\ [][weeklyDisciplines' = weeklyDisciplines]_vars
    /\ [][\A r \in DOMAIN runs :
             (InFlight(r) /\ runs[r].pc = "check" /\ CheckWorker(r)
                 /\ NoRecord(Head(runs[r].workers))) =>
                /\ runs'[r].pc = "rate"
                /\ runs'[r].incompleteTasks = AllFalseTasks
                /\ NoRecordIn(weeklyDisciplines', Head(runs[r].workers))]_vars
    /\ [][\A q \in DOMAIN requests' :
             (Starts(q) /\ requests'[q].op = "getMyIncompleteTasks"
                 /\ NoRecord(requests'[q].userId)) =>
                /\ requests'[q].result.hasIncompleteTasks
                /\ requests'[q].result.incompleteTasks = AllFalseTasks
                /\ requests'[q].result.message.taskCount = 2 * TodayIndex + Len(AllFalseTasks) - 2
                /\ NoRecordIn(weeklyDisciplines', requests'[q].userId)]_vars
    /\ [](\A u \in DOMAIN users :
             NoRecord(u) => checkIncompleteTasks(weeklyDisciplines, now, u) = AllFalseTasks)

\* a Wednesday: subject 1, a worker with no record, was sent a reminder listing both daily
\* kinds for Monday..Wednesday, polled its incomplete tasks and was told of six; the
\* store still holds no record for it
C26_Witness ==
    /\ now.day = 44 /\ NoRecord(1)
    /\ \E q \in DOMAIN requests :
          /\ requests[q].op = "getMyIncompleteTasks" /\ requests[q].userId = 1
          /\ requests[q].result.message.taskCount = 6
    /\ \E n \in notifications :
          /\ n.userId = 1 /\ n.type = "task_reminder"
          /\ n.incompleteTasks = AllFalseTasks
    /\ \E r \in DOMAIN runs : runs[r].outcome = "returned" /\ runs[r].count > 0


(***************************************************************************)
(* getDashboardStats and the streak (checked under MidnightSpec).          *)
(***************************************************************************)
\* the step in which a call of getDashboardStats returns
DashboardReturns(q) == StreakDone(q) /\ requests[q].op = "getDashboardStats"

\* what C28 says of a returned dashboard: today has an entry in the date map, the
\* absent-today skip was not taken, and the streak is 0 unless today is flagged
TodayRecorded(q) ==
    LET u == requests[q].userId
    IN  /\ CoveredDay(u, now.day)
        /\ requests'[q].result.walk.skipped = 0
        /\ ~CompletedOn(u, now.day) => requests'[q].result.currentStreak = 0

\* C28, as stated: whenever getDashboardStats returns, today has an entry in the date
\* map, the absent-today skip was not taken and currentStreak is 0 unless a discipline is
\* flagged for today.
C28_TodayAlwaysRecorded ==
    [][\A q \in DOMAIN requests : DashboardReturns(q) => TodayRecorded(q)]_vars

\* C28, amended: the same, for a call whose streak is computed in the week its record
\* was fetched or created for.
C28_TodayRecordedWithinWeek ==
    [][\A q \in DOMAIN requests :
          (DashboardReturns(q) /\ getWeekStartDate(now) = requests[q].weekStartDate)
              => TodayRecorded(q)]_vars

\* a call made in the last millisecond of a Thursday returned on the Friday: Tuesday to
\* Thursday are completed, Friday is not flagged, and the streak returned is 0
C28_Witness ==
    \E q \in DOMAIN requests :
        /\ DashboardDone(q) /\ requests[q].at = Date(45, EndOfDayMs)
        /\ now = Date(46, 0)
        /\ \A day \in {43, 44, 45} : CompletedOn(requests[q].userId, day)
        /\ ~CompletedOn(requests[q].userId, 46)
        /\ requests[q].result.currentStreak = 0
        /\ requests[q].result.walk.skipped = 0
        /\ requests[q].result.walk.turns = 1


(***************************************************************************)
(* saveProgress replaces an entry as a whole                               *)
(***************************************************************************)
\* The bodies a request's payload was parsed from
BodiesOf(q) == {b \in Bodies : b # << >> /\ requests[q].data =
                    saveProgressSchema([disciplines |-> b, weekStartDate |-> Null]).disciplines}

\* The flag the body's last entry of a kind gives a weekday: false when it leaves it out
FlagOf(body, kind, day) ==
    LET entry == LastOf(body, kind) IN day \in DOMAIN entry /\ entry[day] = TRUE

\* The save before q was of the same subject, week and payload, and succeeded
RepeatsPrevious(q) ==
    /\ q > 1
    /\ requests[q - 1].op = "saveProgress" /\ requests[q - 1].outcome = "ok"
    /\ requests[q - 1].userId = requests[q].userId
    /\ requests[q - 1].weekStartDate = requests[q].weekStartDate
    /\ requests[q - 1].data = requests[q].data

\* C29: after a save whose payload holds kind K, the record's seven flags of K are
\* exactly those of the payload's entry, a weekday the payload leaves out being false and
\* a weekday that was true before being kept only if the payload sets it; and a save
\* that repeats the one before it leaves the record as that one left it.
C29_ReplacesWholeEntry ==
    [][\A q \in DOMAIN requests : Saved(q) =>
          /\ requests'[q].outcome = "ok"
          /\ BodiesOf(q) # {}
          /\ \A b \in BodiesOf(q) : \A kind \in KindsOf(b) :
                \E d2 \in weeklyDisciplines' :
                   /\ SameWeek(d2, requests[q])
                   /\ \E j \in DOMAIN d2.disciplines :
                         /\ d2.disciplines[j].discipline = kind
                         /\ \A day \in Range(DaysOfWeek) :
                               d2.disciplines[j][day] = FlagOf(b, kind, day)
          /\ RepeatsPrevious(q) => weeklyDisciplines' = weeklyDisciplines]_vars

\* Subject 1, whose record held prayer with Monday and Tuesday set, twice saved a body
\* whose prayer entry leaves Monday out; the record's prayer entry has Monday cleared.
C29_Witness ==
    /\ Cardinality(DOMAIN requests) >= 2
    /\ \A q \in {1, 2} :
          /\ requests[q].op = "saveProgress" /\ requests[q].outcome = "ok"
          /\ requests[q].userId = 1
          /\ requests[q].data = <<Progress("prayer", {"tuesday"})>>
    /\ \E d \in weeklyDisciplines :
          /\ d.userId = 1
          /\ d.disciplines =
                <<Progress("prayer", {"tuesday"}), Progress("bible_study", {"thursday"})>>

====
